---- MODULE Spec2Model ----
(***************************************************************************)
(* Upsert reconciliation of the yfinance ingestion pipeline.               *)
(*                                                                         *)
(* The storage is the committed content of the tables; every wrapper       *)
(* of the insert_yf package is one action that runs the whole handler:     *)
(* obtaining                                                               *)
(* the provider client, fetching the snapshot, the emptiness check, the    *)
(* session scope with its reconciliation, the commit or the rollback, and  *)
(* the value handed back to the caller.  The provider's snapshot and the   *)
(* point where a collaborator raises are the inputs of a call.             *)
(*                                                                         *)
(* The wide field-mapping tables are represented by the columns whose      *)
(* mapping differs in kind (unconditional setattr, guarded setattr,        *)
(* candidate lists); columns mapped by the same statement as a modelled    *)
(* one behave like it.                                                     *)
(***************************************************************************)
EXTENDS Integers, Sequences, FiniteSets, TLC

VARIABLES
    db,     \* committed rows of every table, in primary-key order
    now,    \* the clock read by datetime.now(): one tick per wrapper call
    last,   \* what the most recent wrapper call was given and what it did
    hist,   \* history: keys ingested by successful calls, collisions seen
    driver  \* the schedule script in progress: its list, position and errors

vars == <<db, now, last, hist, driver>>

\* Number of wrapper calls of a run (per-family runs, and the run over all wrappers).
MaxCalls == 3
MaxCallsAll == 2

Symbols == {"7974.T", "AAPL"}
Days == {"2024-01-01", "2024-01-02"}

-----------------------------------------------------------------------------
(* Source cells and column values.  A cell of a snapshot is a number, NaN,  *)
(* None, a string that float() rejects, or is absent from the structure;    *)
(* a column holds a number, NaN or NULL, or the text a wrapper handed over   *)
(* unconverted.                                                             *)
Num(n) == [k |-> "num", n |-> n]
NaN == [k |-> "nan", n |-> 0]
None == [k |-> "none", n |-> 0]
BadStr == [k |-> "str", n |-> 0]
Absent == [k |-> "absent", n |-> 0]
\* A text value (a name, a headline); n tells two texts apart.
Text(n) == [k |-> "text", n |-> n]

\* pd.isna(value): NaN and None are missing values.
isna(v) == v.k \in {"nan", "none"}

\* A date index of a table: a native temporal value (it has strftime) or an
\* ISO-8601 string; tm is the time of day of the value.
Ts(d, tm) == [kind |-> "ts", day |-> d, tm |-> tm]
IsoStr(d) == [kind |-> "str", day |-> d, tm |-> ""]

\* date_index.strftime('%Y-%m-%d') when the index has strftime, else
\* str(date_index)[:10]: both are the ten characters of the day.
date_str_of(date_index) ==
    IF date_index.kind = "ts" THEN date_index.day ELSE date_index.day

\* A snapshot as the provider hands it over: None, or a table/dict/list of items.
NoneData == [shape |-> "none", items |-> <<>>]
Table(items) == [shape |-> "table", items |-> items]
Dict(items) == [shape |-> "dict", items |-> items]
List(items) == [shape |-> "list", items |-> items]

\* Sequences over S of the lengths in L.
SeqsOf(S, L) == UNION {[1..n -> S] : n \in L}

Range(s) == {s[i] : i \in DOMAIN s}

\* The places of a wrapper where a collaborator can raise.
Faults == {"none", "obtain", "fetch", "reconcile", "commit"}

-----------------------------------------------------------------------------
(* Storage.                                                                 *)
Tables ==
    {"actions", "dividends", "history", "balancesheets", "financials",
     "income_statements", "cash_flows", "stock_info", "calendars", "news",
     "sustainability", "earnings_estimates", "mutualfund_holders",
     "institutional_holders", "history_1min", "eps_trends",
     "recommendations"}

EmptyDb == [t \in Tables |-> <<>>]

\* The rows of table t that a filter on symbol returns, as positions.
RowsOf(rows, symbol) == {i \in DOMAIN rows : rows[i].symbol = symbol}

\* {key: record for record in query.all()}: one record per key; when two
\* rows carry one key the record kept is the one the query returned last,
\* and the order of a query without ORDER BY is the engine's choice.
\* key_of gives the key of the row at every position.
ExistingRecords(key_of, I) ==
    LET K == {key_of[i] : i \in I}
    IN  {f \in [K -> I] : \A k \in K : key_of[f[k]] = k}

\* str(record.date) of every row, and (date, period_type) of every row.
DateOf(rows) == [i \in DOMAIN rows |-> rows[i].date]

DatePeriodOf(rows) == [i \in DOMAIN rows |-> <<rows[i].date, rows[i].period_type>>]

-----------------------------------------------------------------------------
(* Bookkeeping of a call.                                                   *)
NoCall == [fn |-> "none", symbol |-> "", data |-> NoneData, period |-> "",
           fault |-> "none", outcome |-> "none", ret |-> 0,
           n_new |-> 0, n_upd |-> 0, events |-> <<>>, opened |-> 0, commits |-> 0,
           rollbacks |-> 0, keys |-> <<>>, repeat |-> FALSE, pre |-> EmptyDb]

\* The mutation of the scope that leaves the session open when the block or
\* the commit raises.
leaky_scope(block_raises, commit_raises) ==
    IF block_raises THEN <<"open", "rollback">>
    ELSE IF commit_raises THEN <<"open", "commit", "rollback">>
    ELSE <<"open", "commit", "commit", "close">>

\* DatabaseClient.session_scope around a block that ends with session.commit():
\*     session = self.get_session()
\*     try:     yield session          (the block, its own commit last)
\*              session.commit()
\*     except:  session.rollback(); raise
\*     finally: session.close()
\* as the calls made on the session, in order.
session_scope(block_raises, commit_raises) ==
    IF block_raises THEN <<"open", "rollback", "close">>
    ELSE IF commit_raises THEN <<"open", "commit", "rollback", "close">>
    ELSE <<"open", "commit", "commit", "close">>

\* How often a call was made on the sessions of a wrapper call.
Count(events, e) == Cardinality({i \in DOMAIN events : events[i] = e})

Call(fn, symbol, data, period, fault, outcome, ret, n_new, n_upd, events, keys) ==
    [fn |-> fn, symbol |-> symbol, data |-> data, period |-> period,
     fault |-> fault, outcome |-> outcome, ret |-> ret,
     n_new |-> n_new, n_upd |-> n_upd, events |-> events,
     opened |-> Count(events, "open"), commits |-> Count(events, "commit"),
     rollbacks |-> Count(events, "rollback"),
     \* the key derived from every item the call did not skip, in item order
     keys |-> keys,
     \* the call repeats the one before it: same wrapper, symbol and snapshot,
     \* and that call succeeded
     repeat |-> /\ last.fn = fn /\ last.symbol = symbol /\ last.data = data
                /\ last.period = period /\ last.outcome = "ok",
     pre |-> db]

\* What a call leaves behind in the history: the keys a successful call
\* ingested, whether every call so far succeeded, and whether every snapshot
\* so far derived pairwise-distinct keys.
Distinct(keys) == Cardinality(Range(keys)) = Len(keys)

\* News.id is the primary key of its table: an article is keyed by its id
\* whatever the symbol; every other key belongs to a symbol.
KeyOwner(table, symbol) == IF table = "news" THEN "" ELSE symbol

Record(table, symbol, outcome, keys) ==
    [clean |-> hist.clean /\ Distinct(keys),
     allok |-> hist.allok /\ outcome \in {"ok", "empty"},
     keys |-> IF outcome = "ok"
              THEN [hist.keys EXCEPT
                      ![table] = @ \cup {<<KeyOwner(table, symbol), k>> : k \in Range(keys)}]
              ELSE hist.keys]

(* The body shared by the single-table wrappers:                            *)
(*     <obtain the client or the symbol>          outside the try           *)
(*     try:                                                                 *)
(*         data = <fetch>                                                   *)
(*         if <emptiness check>: return 0                                   *)
(*         with db_client.session_scope() as session:                       *)
(*             processed_count = <reconcile>(session, symbol, data)         *)
(*             session.commit()                                             *)
(*             return processed_count                                       *)
(*     except Exception: return 0                                           *)
(* check is the emptiness check's verdict on data ("empty", "data", or      *)
(* "raise" when the check itself raises); rec is what the reconciliation    *)
(* does to the table.  session_scope commits once more when the block is    *)
(* left, and rolls back and re-raises when the block raises.                *)
Wrapper(fn, table, symbol, data, fault, check, rec) ==
    LET inTx == fault \notin {"obtain", "fetch"} /\ check = "data"
        \* the engine refuses a pending row at the flush of session.commit()
        rejected == "rejected" \in DOMAIN rec /\ rec.rejected
        outcome ==
            IF fault = "obtain" THEN "raised"
            ELSE IF fault = "fetch" \/ check = "raise" THEN "error"
            ELSE IF check = "empty" THEN "empty"
            ELSE IF rec.raised \/ rejected \/ fault \in {"reconcile", "commit"} THEN "error"
            ELSE "ok"
        ok == outcome = "ok"
        events ==
            IF inTx
            THEN session_scope(rec.raised \/ fault = "reconcile",
                               rejected \/ fault = "commit")
            ELSE <<>>
    IN  /\ now' = now + 1
        /\ db' = IF ok THEN [db EXCEPT ![table] = rec.rows] ELSE db
        /\ last' = Call(fn, symbol, data, "", fault, outcome,
                        IF ok THEN rec.ret ELSE 0,
                        IF ok THEN rec.n_new ELSE 0,
                        IF ok THEN rec.n_upd ELSE 0,
                        events,
                        IF inTx THEN rec.keys ELSE <<>>)
        /\ hist' = Record(table, symbol, outcome, IF inTx THEN rec.keys ELSE <<>>)

\* The emptiness checks of the wrappers.
\* data.empty: only a table has the attribute.
check_empty_attr(data) ==
    IF data.shape # "table" THEN "raise"
    ELSE IF data.items = <<>> THEN "empty" ELSE "data"

\* The mutation of the reconciliation that keeps only the snapshot's rows.
Replaced(rows, new, n_upd, keys, raised) ==
    [rows |-> new, n_new |-> Len(new), n_upd |-> n_upd,
     ret |-> Len(new) + n_upd, keys |-> keys, raised |-> raised]

\* What a reconciliation hands back: the stored rows, patched in place, and
\* the new records after them (session.bulk_save_objects(new_records));
\* return len(new_records) + updated_count.
Reconciled(rows, new, n_upd, keys, raised) ==
    [rows |-> rows \o new, n_new |-> Len(new), n_upd |-> n_upd,
     ret |-> Len(new) + n_upd, keys |-> keys, raised |-> raised]

-----------------------------------------------------------------------------
(* Corporate actions: src/insert_yf/stock_actions.py                        *)

\* row.get(name, 0.0) if not pd.isna(row.get(name, 0.0)) else 0.0
action_amount(cell) ==
    IF cell.k = "absent" \/ isna(cell) THEN Num(0) ELSE cell

\* The mutation of the zero-row test that lets every row through.
never_zero_row(dividends, stock_splits) == FALSE

\* if dividends == 0.0 and stock_splits == 0.0: continue
is_zero_row(dividends, stock_splits) ==
    dividends = Num(0) /\ stock_splits = Num(0)

bulk_process_actions_data(rows, symbol, items, existing_records, t) ==
    LET step[n \in 0..Len(items)] ==
            IF n = 0
            THEN [rows |-> rows, new |-> <<>>, upd |-> 0, keys |-> <<>>, raised |-> FALSE]
            ELSE
              LET a == step[n - 1]
                  date_str == date_str_of(items[n].date_index)
                  dividends == action_amount(items[n].Dividends)
                  stock_splits == action_amount(items[n].StockSplits)
              IN  IF a.raised THEN a
                  ELSE IF is_zero_row(dividends, stock_splits) THEN a
                  ELSE IF dividends.k # "num" \/ stock_splits.k # "num"
                       THEN [a EXCEPT !.raised = TRUE]
                  ELSE IF date_str \in DOMAIN existing_records
                  THEN [a EXCEPT
                          !.rows[existing_records[date_str]].dividends = dividends,
                          !.rows[existing_records[date_str]].stock_splits = stock_splits,
                          !.rows[existing_records[date_str]].updated_at = t,
                          !.upd = @ + 1,
                          !.keys = Append(@, date_str)]
                  ELSE [a EXCEPT
                          !.new = Append(@, [symbol |-> symbol, date |-> date_str,
                                             dividends |-> dividends,
                                             stock_splits |-> stock_splits,
                                             created_at |-> t, updated_at |-> t]),
                          !.keys = Append(@, date_str)]
        r == step[Len(items)]
    IN  Reconciled(r.rows, r.new, r.upd, r.keys, r.raised)

insert_stock_actions(symbol, actions_data, fault) ==
    \E existing_records \in
            ExistingRecords(DateOf(db.actions), RowsOf(db.actions, symbol)) :
        Wrapper("insert_stock_actions", "actions", symbol, actions_data, fault,
                check_empty_attr(actions_data),
                bulk_process_actions_data(db.actions, symbol, actions_data.items,
                                          existing_records, now + 1))

-----------------------------------------------------------------------------
(* Dividends: src/insert_yf/stock_dividends.py                              *)

bulk_process_dividends_data(rows, symbol, items, existing_records, t) ==
    LET step[n \in 0..Len(items)] ==
            IF n = 0
            THEN [rows |-> rows, new |-> <<>>, upd |-> 0, keys |-> <<>>, raised |-> FALSE]
            ELSE
              LET a == step[n - 1]
                  date_str == date_str_of(items[n].date_index)
                  dividend_amount == items[n].Dividends
              IN  IF a.raised THEN a
                  \* pd.isna(dividend_amount) or dividend_amount <= 0
                  ELSE IF isna(dividend_amount) THEN a
                  ELSE IF dividend_amount.k # "num" THEN [a EXCEPT !.raised = TRUE]
                  ELSE IF dividend_amount.n <= 0 THEN a
                  ELSE IF date_str \in DOMAIN existing_records
                  THEN [a EXCEPT
                          !.rows[existing_records[date_str]].dividends = dividend_amount,
                          !.rows[existing_records[date_str]].updated_at = t,
                          !.upd = @ + 1,
                          !.keys = Append(@, date_str)]
                  ELSE [a EXCEPT
                          !.new = Append(@, [symbol |-> symbol, date |-> date_str,
                                             dividends |-> dividend_amount,
                                             created_at |-> t, updated_at |-> t]),
                          !.keys = Append(@, date_str)]
        r == step[Len(items)]
    IN  Reconciled(r.rows, r.new, r.upd, r.keys, r.raised)

insert_stock_dividends(symbol, dividends_data, fault) ==
    \E existing_records \in
            ExistingRecords(DateOf(db.dividends), RowsOf(db.dividends, symbol)) :
        Wrapper("insert_stock_dividends", "dividends", symbol, dividends_data, fault,
                check_empty_attr(dividends_data),
                bulk_process_dividends_data(db.dividends, symbol, dividends_data.items,
                                            existing_records, now + 1))

-----------------------------------------------------------------------------
(* Daily price bars: src/insert_yf/stock_history.py                         *)

\* date_index.strftime('%Y-%m-%dT%H:%M:%S.%fZ')[:24] for a temporal value:
\* day, 'T', time of day, and the first four digits of the microseconds;
\* str(date_index)[:24] for anything else.
format_date(date_index) ==
    IF date_index.kind = "ts"
    THEN <<date_index.day, "T", date_index.tm, ".0000">>
    ELSE IF date_index.tm = "" THEN <<date_index.day>>
    ELSE <<date_index.day, " ", date_index.tm>>

\* None when the column is absent, the value is NaN/None or a string that
\* float() rejects; float(value) otherwise.
get_safe_float(cell) ==
    IF cell.k = "num" THEN cell ELSE None

process_stock_history_data(rows, symbol, items, t) ==
    LET existing_dates == {rows[i].date : i \in RowsOf(rows, symbol)}
        record_data(n) ==
            [symbol |-> symbol, date |-> format_date(items[n].date_index),
             open |-> get_safe_float(items[n].Open),
             close |-> get_safe_float(items[n].Close),
             created_at |-> t, updated_at |-> t]
        new_idx == {n \in DOMAIN items : record_data(n).date \notin existing_dates}
        upd_idx == {n \in DOMAIN items : record_data(n).date \in existing_dates}
        \* the new records in snapshot order
        pick[n \in 0..Len(items)] ==
            IF n = 0 THEN <<>>
            ELSE IF n \in new_idx THEN Append(pick[n - 1], record_data(n))
            ELSE pick[n - 1]
        \* query(History).filter(symbol, date).update({...}) for every update
        \* record in order: every row with that symbol and date is written
        upd[n \in 0..Len(items)] ==
            IF n = 0 THEN rows
            ELSE IF n \in upd_idx
            THEN [i \in DOMAIN rows |->
                    IF upd[n - 1][i].symbol = symbol
                       /\ upd[n - 1][i].date = record_data(n).date
                    THEN [upd[n - 1][i] EXCEPT !.open = record_data(n).open,
                                               !.close = record_data(n).close,
                                               !.updated_at = t]
                    ELSE upd[n - 1][i]]
            ELSE upd[n - 1]
    IN  [rows |-> upd[Len(items)] \o pick[Len(items)],
         n_new |-> Cardinality(new_idx), n_upd |-> Cardinality(upd_idx),
         ret |-> Len(items),
         keys |-> [n \in DOMAIN items |-> record_data(n).date],
         raised |-> FALSE]

insert_stock_history(symbol, hist_data, fault) ==
    Wrapper("insert_stock_history", "history", symbol, hist_data, fault,
            check_empty_attr(hist_data),
            process_stock_history_data(db.history, symbol, hist_data.items, now + 1))

\* The parameters of insert_stock_history: def insert_stock_history(symbol,
\* period="1y").
history_parameters == {"symbol", "period"}

\* A call of insert_stock_history that passes the symbol and the given
\* keyword arguments, as the daily driver's
\*     insert_stock_history(yf_client, interval='1m')
\* A keyword that is no parameter makes the call raise TypeError before the
\* body runs; the driver's try block receives it.
call_stock_history(symbol, keywords, hist_data, fault) ==
    IF keywords \subseteq history_parameters
    THEN insert_stock_history(symbol, hist_data, fault)
    ELSE /\ now' = now + 1
         /\ db' = db
         /\ last' = Call("insert_stock_history", symbol, NoneData, "", "bind", "raised",
                         0, 0, 0, <<>>, <<>>)
         /\ hist' = Record("history", symbol, "raised", <<>>)

-----------------------------------------------------------------------------
(* Financial statements.  An item is one date column of the provider's      *)
(* table: column_date and, per line-item name, the cell of that column.     *)

\* Both statement snapshots of a call that reads the annual and the
\* quarterly table.
Statements(annual, quarterly) ==
    [shape |-> "statements", items |-> <<>>, annual |-> annual, quarterly |-> quarterly]

(* Balance sheet: src/insert_yf/stock_balancesheet.py                       *)

\* safe_get_value(field_name): float(value) for a number, None when the line
\* is not in the table, the cell is NaN/None or a string float() rejects.
safe_get_value(cell) ==
    IF cell.k = "num" THEN cell ELSE None

\* setattr(bs_record, column, safe_get_value(line)) for every column.
update_balancesheet_fields(bs_record, item) ==
    [bs_record EXCEPT !.total_assets = safe_get_value(item.cells["Total Assets"]),
                      !.current_assets = safe_get_value(item.cells["Current Assets"])]

bulk_process_balancesheet_data(rows, symbol, items, period_type, existing_dict, t) ==
    LET step[n \in 0..Len(items)] ==
            IF n = 0
            THEN [rows |-> rows, new |-> <<>>, upd |-> 0, keys |-> <<>>]
            ELSE
              LET a == step[n - 1]
                  date_str == date_str_of(items[n].column_date)
                  record_key == <<date_str, period_type>>
              IN  IF record_key \in DOMAIN existing_dict
                  THEN [a EXCEPT
                          !.rows[existing_dict[record_key]] =
                              [update_balancesheet_fields(@, items[n])
                                  EXCEPT !.updated_at = t],
                          !.upd = @ + 1,
                          !.keys = Append(@, record_key)]
                  ELSE [a EXCEPT
                          !.new = Append(@, update_balancesheet_fields(
                                      [symbol |-> symbol, date |-> date_str,
                                       period_type |-> period_type,
                                       total_assets |-> None, current_assets |-> None,
                                       created_at |-> t, updated_at |-> t], items[n])),
                          !.keys = Append(@, record_key)]
        r == step[Len(items)]
    IN  Reconciled(r.rows, r.new, r.upd, r.keys, FALSE)

\* One "if period in [...]" block of insert_stock_balancesheet, run on the
\* storage the previous block left: the fetch, the emptiness test and the
\* session scope of its own.
balancesheet_block(rows, symbol, data, period_type, existing_dict, t, fetch_fails, reconcile_fails, commit_fails) ==
    LET rec == bulk_process_balancesheet_data(rows, symbol, data.items, period_type,
                                              existing_dict, t)
        status ==
            IF fetch_fails \/ data.shape # "table" THEN "raise"
            ELSE IF data.items = <<>> THEN "empty"
            ELSE IF reconcile_fails \/ commit_fails THEN "rollback"
            ELSE "committed"
    IN  [status |-> status,
         rows |-> IF status = "committed" THEN rec.rows ELSE rows,
         count |-> IF status = "committed" THEN rec.ret ELSE 0,
         n_new |-> IF status = "committed" THEN rec.n_new ELSE 0,
         n_upd |-> IF status = "committed" THEN rec.n_upd ELSE 0,
         keys |-> IF status \in {"committed", "rollback"} THEN rec.keys ELSE <<>>,
         events |-> IF status \in {"committed", "rollback"}
                    THEN session_scope(reconcile_fails, commit_fails) ELSE <<>>]

Skipped(rows) ==
    [status |-> "skipped", rows |-> rows, count |-> 0, n_new |-> 0, n_upd |-> 0,
     keys |-> <<>>, events |-> <<>>]

BsRows(rows, symbol, period_type) ==
    {i \in DOMAIN rows : rows[i].symbol = symbol /\ rows[i].period_type = period_type}

insert_stock_balancesheet(symbol, period, data, fault) ==
    \E ea \in ExistingRecords(DatePeriodOf(db.balancesheets),
                              BsRows(db.balancesheets, symbol, "annual")),
       eq \in ExistingRecords(DatePeriodOf(db.balancesheets),
                              BsRows(db.balancesheets, symbol, "quarterly")) :
        LET t == now + 1
            A == IF period \in {"annual", "both"}
                 THEN balancesheet_block(db.balancesheets, symbol, data.annual, "annual",
                                         ea, t, fault = "fetch", fault = "reconcile",
                                         fault = "commit")
                 ELSE Skipped(db.balancesheets)
            aborted == A.status \in {"raise", "rollback"}
            Q == IF ~aborted /\ period \in {"quarterly", "both"}
                 THEN balancesheet_block(A.rows, symbol, data.quarterly, "quarterly",
                                         eq, t, fault = "fetch_q", fault = "reconcile_q",
                                         fault = "commit_q")
                 ELSE Skipped(A.rows)
            processed_count == A.count + Q.count
            outcome ==
                IF fault = "obtain" THEN "raised"
                ELSE IF aborted \/ Q.status \in {"raise", "rollback"} THEN "error"
                ELSE IF processed_count = 0 THEN "empty"
                ELSE "ok"
        IN  /\ now' = t
            /\ db' = IF fault = "obtain" THEN db
                     ELSE [db EXCEPT !.balancesheets = Q.rows]
            /\ last' = IF fault = "obtain"
                       THEN Call("insert_stock_balancesheet", symbol, data, period, fault,
                                 outcome, 0, 0, 0, <<>>, <<>>)
                       ELSE Call("insert_stock_balancesheet", symbol, data, period, fault,
                                 outcome,
                                 IF outcome = "ok" THEN processed_count ELSE 0,
                                 A.n_new + Q.n_new, A.n_upd + Q.n_upd,
                                 A.events \o Q.events, A.keys \o Q.keys)
            /\ hist' = Record("balancesheets", symbol, outcome,
                              IF fault = "obtain" THEN <<>> ELSE A.keys \o Q.keys)

(* Financials and income statement: src/insert_yf/stock_financials.py,      *)
(* src/insert_yf/stock_income_stmt.py                                       *)

\* data is None or data.empty
check_none_or_empty(data) ==
    IF data.shape = "none" THEN "empty"
    ELSE IF data.shape # "table" THEN "raise"
    ELSE IF data.items = <<>> THEN "empty" ELSE "data"

\* The candidate source lines of a column, in priority order.
field_mappings ==
    [total_revenue |-> <<"Total Revenue", "Operating Revenue">>,
     operating_revenue |-> <<"Operating Revenue", "Total Revenue">>,
     gross_profit |-> <<"Gross Profit">>]

\* for json_key in json_keys: the first candidate that is in the table with
\* a value float() accepts sets the column and ends the loop; a candidate
\* that is not in the table, is None or NaN, or makes float() raise is passed
\* over.  The result is the position of the candidate used, 0 when none is.
\* The mutation of the candidate loop that lets a later candidate overwrite
\* an earlier one: the position of the last usable candidate.
last_candidate(item, json_keys) ==
    LET hits == {i \in DOMAIN json_keys : item.cells[json_keys[i]].k = "num"}
    IN  IF hits = {} THEN 0 ELSE CHOOSE i \in hits : \A j \in hits : i >= j

first_candidate(item, json_keys) ==
    LET usable(i) == item.cells[json_keys[i]].k = "num"
        hits == {i \in DOMAIN json_keys : usable(i)}
    IN  IF hits = {} THEN 0 ELSE CHOOSE i \in hits : \A j \in hits : i <= j

\* The value a column takes: the first usable candidate's, or the column's own.
mapped_value(old, item, json_keys) ==
    IF first_candidate(item, json_keys) = 0 THEN old
    ELSE item.cells[json_keys[first_candidate(item, json_keys)]]

update_financials_fields(record, item) ==
    [record EXCEPT
        !.total_revenue = mapped_value(@, item, field_mappings.total_revenue),
        !.operating_revenue = mapped_value(@, item, field_mappings.operating_revenue),
        !.gross_profit = mapped_value(@, item, field_mappings.gross_profit)]

create_financials_record(symbol, date_str, period_type, item, t) ==
    update_financials_fields(
        [symbol |-> symbol, date |-> date_str, period_type |-> period_type,
         total_revenue |-> None, operating_revenue |-> None, gross_profit |-> None,
         created_at |-> t, updated_at |-> t], item)

bulk_process_financials_data(rows, symbol, items, existing_records, t) ==
    LET step[n \in 0..Len(items)] ==
            IF n = 0
            THEN [rows |-> rows, new |-> <<>>, upd |-> 0, keys |-> <<>>]
            ELSE
              LET a == step[n - 1]
                  date_str == date_str_of(items[n].column_date)
                  period_type == "annual"
                  record_key == <<date_str, period_type>>
              IN  IF record_key \in DOMAIN existing_records
                  THEN [a EXCEPT
                          !.rows[existing_records[record_key]] =
                              [update_financials_fields(@, items[n])
                                  EXCEPT !.updated_at = t],
                          !.upd = @ + 1,
                          !.keys = Append(@, record_key)]
                  ELSE [a EXCEPT
                          !.new = Append(@, create_financials_record(
                                      symbol, date_str, period_type, items[n], t)),
                          !.keys = Append(@, record_key)]
        r == step[Len(items)]
    IN  Reconciled(r.rows, r.new, r.upd, r.keys, FALSE)

insert_stock_financials(symbol, financials_data, fault) ==
    \E existing_records \in
            ExistingRecords(DatePeriodOf(db.financials), RowsOf(db.financials, symbol)) :
        Wrapper("insert_stock_financials", "financials", symbol, financials_data, fault,
                check_none_or_empty(financials_data),
                bulk_process_financials_data(db.financials, symbol, financials_data.items,
                                             existing_records, now + 1))

\* The income statement maps its columns by the same candidate loop.
update_income_stmt_fields(record, item) ==
    [record EXCEPT
        !.total_revenue = mapped_value(@, item, field_mappings.total_revenue),
        !.operating_revenue = mapped_value(@, item, field_mappings.operating_revenue),
        !.gross_profit = mapped_value(@, item, field_mappings.gross_profit)]

create_income_stmt_record(symbol, date_str, item, t) ==
    update_income_stmt_fields(
        [symbol |-> symbol, date |-> date_str,
         total_revenue |-> None, operating_revenue |-> None, gross_profit |-> None,
         created_at |-> t, updated_at |-> t], item)

bulk_process_income_stmt_data(rows, symbol, items, existing_records, t) ==
    LET step[n \in 0..Len(items)] ==
            IF n = 0
            THEN [rows |-> rows, new |-> <<>>, upd |-> 0, keys |-> <<>>]
            ELSE
              LET a == step[n - 1]
                  date_str == date_str_of(items[n].column_date)
              IN  IF date_str \in DOMAIN existing_records
                  THEN [a EXCEPT
                          !.rows[existing_records[date_str]] =
                              [update_income_stmt_fields(@, items[n])
                                  EXCEPT !.updated_at = t],
                          !.upd = @ + 1,
                          !.keys = Append(@, date_str)]
                  ELSE [a EXCEPT
                          !.new = Append(@, create_income_stmt_record(
                                      symbol, date_str, items[n], t)),
                          !.keys = Append(@, date_str)]
        r == step[Len(items)]
    IN  Reconciled(r.rows, r.new, r.upd, r.keys, FALSE)

insert_stock_income_stmt(symbol, income_stmt_data, fault) ==
    \E existing_records \in
            ExistingRecords(DateOf(db.income_statements),
                            RowsOf(db.income_statements, symbol)) :
        Wrapper("insert_stock_income_stmt", "income_statements", symbol,
                income_stmt_data, fault, check_none_or_empty(income_stmt_data),
                bulk_process_income_stmt_data(db.income_statements, symbol,
                                              income_stmt_data.items,
                                              existing_records, now + 1))

(* Cash flow: src/insert_yf/stock_cashflow.py                               *)

\* value = data.loc[line, date_col] if line in data.index else None; the
\* column is set to float(value) unless value is None or has an isna method
\* that answers true (a float NaN has none, so NaN is written); a value
\* float() rejects leaves the column alone.
map_cashflow_value(old, cell) ==
    IF cell.k \in {"num", "nan"} THEN cell ELSE old

map_cashflow_fields(record, item) ==
    [record EXCEPT
        !.operating_cash_flow = map_cashflow_value(@, item.cells["Operating Cash Flow"]),
        !.free_cash_flow = map_cashflow_value(@, item.cells["Free Cash Flow"])]

create_cashflow_record(symbol, date_str, period_type, item, t) ==
    map_cashflow_fields(
        [symbol |-> symbol, date |-> date_str, period_type |-> period_type,
         operating_cash_flow |-> None, free_cash_flow |-> None,
         created_at |-> t, updated_at |-> t], item)

bulk_process_cashflow_data(rows, symbol, items, period_type, existing_records, t) ==
    LET step[n \in 0..Len(items)] ==
            IF n = 0
            THEN [rows |-> rows, new |-> <<>>, upd |-> 0, keys |-> <<>>]
            ELSE
              LET a == step[n - 1]
                  date_str == date_str_of(items[n].column_date)
                  record_key == <<date_str, period_type>>
              IN  IF record_key \in DOMAIN existing_records
                  THEN [a EXCEPT
                          !.rows[existing_records[record_key]] =
                              map_cashflow_fields([@ EXCEPT !.updated_at = t], items[n]),
                          !.upd = @ + 1,
                          !.keys = Append(@, record_key)]
                  ELSE [a EXCEPT
                          !.new = Append(@, create_cashflow_record(
                                      symbol, date_str, period_type, items[n], t)),
                          !.keys = Append(@, record_key)]
        r == step[Len(items)]
    IN  Reconciled(r.rows, r.new, r.upd, r.keys, FALSE)

\* annual_cf.empty and quarterly_cf.empty
check_cashflow_empty(data) ==
    IF data.annual.shape # "table" THEN "raise"
    ELSE IF data.annual.items # <<>> THEN "data"
    ELSE IF data.quarterly.shape # "table" THEN "raise"
    ELSE IF data.quarterly.items = <<>> THEN "empty" ELSE "data"

\* One session: the annual table and then the quarterly table, each guarded
\* by its own "if not ....empty".
insert_stock_cashflow(symbol, data, fault) ==
    \E ea \in ExistingRecords(DatePeriodOf(db.cash_flows),
                              BsRows(db.cash_flows, symbol, "annual")),
       eq \in ExistingRecords(DatePeriodOf(db.cash_flows),
                              BsRows(db.cash_flows, symbol, "quarterly")) :
        LET t == now + 1
            A == IF data.annual.shape = "table" /\ data.annual.items # <<>>
                 THEN bulk_process_cashflow_data(db.cash_flows, symbol, data.annual.items,
                                                 "annual", ea, t)
                 ELSE Reconciled(db.cash_flows, <<>>, 0, <<>>, FALSE)
            \* quarterly_cf.empty inside the session raises when the provider
            \* handed over no table
            Q == IF data.quarterly.shape = "table"
                 THEN bulk_process_cashflow_data(A.rows, symbol, data.quarterly.items,
                                                 "quarterly", eq, t)
                 ELSE Reconciled(A.rows, <<>>, 0, <<>>, TRUE)
        IN  Wrapper("insert_stock_cashflow", "cash_flows", symbol, data, fault,
                    check_cashflow_empty(data),
                    [rows |-> Q.rows, n_new |-> A.n_new + Q.n_new,
                     n_upd |-> A.n_upd + Q.n_upd, ret |-> A.ret + Q.ret,
                     keys |-> A.keys \o Q.keys, raised |-> Q.raised])

-----------------------------------------------------------------------------
(* Quote snapshot: src/insert_yf/stock_info.py                              *)

\* not data or len(data) == 0: None, {} and [] are falsy; the truth value
\* of a table is an error.
check_falsy(data) ==
    IF data.shape = "table" THEN "raise"
    ELSE IF data.shape = "none" \/ data.items = <<>> THEN "empty" ELSE "data"

\* safe_get(data, key): data.get(key), None for a key the dict lacks.
safe_get(item, key) ==
    IF item.cells[key].k = "absent" THEN None ELSE item.cells[key]

\* stock_info.<column> = get_safe_value(<key>) for every column.
update_stock_info_fields(stock_info, item) ==
    [stock_info EXCEPT !.long_name = safe_get(item, "longName"),
                       !.current_price = safe_get(item, "currentPrice")]

\* query(StockInfo).filter(symbol).first(), then the update of that record
\* or session.add of a new one.
process_stock_info_data(rows, symbol, item, existing_info, t) ==
    IF existing_info # 0
    THEN [rows |-> [rows EXCEPT ![existing_info] =
                        [update_stock_info_fields(@, item) EXCEPT !.updated_at = t]],
          n_new |-> 0, n_upd |-> 1, ret |-> 1, keys |-> <<symbol>>, raised |-> FALSE]
    ELSE [rows |-> Append(rows, update_stock_info_fields(
                        [symbol |-> symbol, long_name |-> None, current_price |-> None,
                         created_at |-> t, updated_at |-> t], item)),
          n_new |-> 1, n_upd |-> 0, ret |-> 1, keys |-> <<symbol>>, raised |-> FALSE]

\* .first(): a row that matches, 0 for None.
First(I) == IF I = {} THEN {0} ELSE I

\* The values reach the session as the provider gave them.  What becomes of
\* a text bound to a Float column is the engine's affair (the engine is the
\* one PG_URL names): it stores the text, or it refuses the statement when
\* session.commit() flushes the row.
engine_rejects(item) ==
    IF item.cells["currentPrice"].k = "str" THEN BOOLEAN ELSE {FALSE}

insert_stock_info(symbol, info_data, fault) ==
    \E existing_info \in First(RowsOf(db.stock_info, symbol)) :
        IF info_data.items = <<>>
        THEN Wrapper("insert_stock_info", "stock_info", symbol, info_data, fault,
                     check_falsy(info_data),
                     Reconciled(db.stock_info, <<>>, 0, <<>>, FALSE))
        ELSE \E rejected \in engine_rejects(info_data.items[1]) :
                Wrapper("insert_stock_info", "stock_info", symbol, info_data, fault,
                        check_falsy(info_data),
                        [rejected |-> rejected]
                        @@ process_stock_info_data(db.stock_info, symbol,
                                                   info_data.items[1], existing_info,
                                                   now + 1))

(* Calendar: src/insert_yf/stock_calendar.py                                *)

\* value = safe_get(row_data, key); if value is not None: try
\* setattr(record, column, float(value)) except (ValueError, TypeError): pass
map_calendar_value(old, item, key) ==
    IF safe_get(item, key).k \in {"num", "nan"} THEN safe_get(item, key) ELSE old

map_calendar_data(record, item) ==
    [record EXCEPT
        !.earnings_high = map_calendar_value(@, item, "Earnings High"),
        !.earnings_average = map_calendar_value(@, item, "Earnings Average")]

\* The session block of insert_stock_calendar: a new Calendar record is built
\* and mapped; when a row of the symbol exists the name calendar_record is
\* rebound to it and nothing else is done, otherwise the new record is added.
\* The block returns 1 either way.
calendar_block(rows, symbol, item, existing_record, t) ==
    LET calendar_record ==
            map_calendar_data([symbol |-> symbol, earnings_high |-> None,
                               earnings_average |-> None,
                               created_at |-> t, updated_at |-> t], item)
    IN  IF existing_record # 0
        THEN [rows |-> rows, n_new |-> 0, n_upd |-> 0, ret |-> 1,
              keys |-> <<symbol>>, raised |-> FALSE]
        ELSE [rows |-> Append(rows, calendar_record), n_new |-> 1, n_upd |-> 0,
              ret |-> 1, keys |-> <<symbol>>, raised |-> FALSE]

insert_stock_calendar(symbol, calendar_data, fault) ==
    \E existing_record \in First(RowsOf(db.calendars, symbol)) :
        Wrapper("insert_stock_calendar", "calendars", symbol, calendar_data, fault,
                check_falsy(calendar_data),
                IF calendar_data.items = <<>>
                THEN Reconciled(db.calendars, <<>>, 0, <<>>, FALSE)
                ELSE calendar_block(db.calendars, symbol, calendar_data.items[1],
                                    existing_record, now + 1))

(* News: src/insert_yf/stock_news.py                                        *)

\* if value is not None: setattr(record, column, value)
update_news_fields(record, news_item) ==
    [record EXCEPT !.title = IF news_item.title.k \in {"absent", "none"}
                             THEN @ ELSE news_item.title]

create_news_record(symbol, news_item, t) ==
    update_news_fields([id |-> news_item.id, symbol |-> symbol, title |-> None,
                        created_at |-> t, updated_at |-> t], news_item)

\* For every item with an id: query(News).filter(News.id == id).first() on
\* the committed rows (the session does not flush before a query), then the
\* update of that record or session.add of a new one.  Two added records with
\* one primary key make the flush fail.
bulk_process_news_data(rows, symbol, news_list, t) ==
    LET stored(id) == {i \in DOMAIN rows : rows[i].id = id}
        step[n \in 0..Len(news_list)] ==
            IF n = 0
            THEN [rows |-> rows, new |-> <<>>, upd |-> 0, keys |-> <<>>]
            ELSE
              LET a == step[n - 1]
                  news_id == news_list[n].id
              IN  IF news_id = "" THEN a
                  ELSE IF stored(news_id) # {}
                  THEN [a EXCEPT
                          !.rows[CHOOSE i \in stored(news_id) : TRUE] =
                              [update_news_fields(@, news_list[n]) EXCEPT !.updated_at = t],
                          !.upd = @ + 1,
                          !.keys = Append(@, news_id)]
                  ELSE [a EXCEPT
                          !.new = Append(@, create_news_record(symbol, news_list[n], t)),
                          !.keys = Append(@, news_id)]
        r == step[Len(news_list)]
        added == [i \in DOMAIN r.new |-> r.new[i].id]
    IN  Reconciled(r.rows, r.new, r.upd, r.keys, ~Distinct(added))

insert_stock_news(symbol, news_data, fault) ==
    Wrapper("insert_stock_news", "news", symbol, news_data, fault,
            check_falsy(news_data),
            bulk_process_news_data(db.news, symbol, news_data.items, now + 1))

(* Sustainability: src/insert_yf/stock_sustainability.py                    *)

\* None; an empty DataFrame; anything else by its truth value.
check_sustainability(data) ==
    IF data.shape = "none" \/ data.items = <<>> THEN "empty" ELSE "data"

\* value = esg_scores_data.get(json_key); if value is not None and not
\* pd.isna(value): try setattr(record, column, float(value)) except
\* (ValueError, TypeError): continue.  The cell is what the lookup yields.
update_sustainability_fields(record, item) ==
    [record EXCEPT !.total_esg = IF item.cells["totalEsg"].k = "num"
                                 THEN item.cells["totalEsg"] ELSE @]

create_sustainability_record(symbol, item, t) ==
    update_sustainability_fields([symbol |-> symbol, total_esg |-> None,
                                  created_at |-> t, updated_at |-> t], item)

bulk_process_sustainability_data(rows, symbol, item, existing_record, t) ==
    IF existing_record # 0
    THEN [rows |-> [rows EXCEPT ![existing_record] =
                        [update_sustainability_fields(@, item) EXCEPT !.updated_at = t]],
          n_new |-> 0, n_upd |-> 1, ret |-> 1, keys |-> <<symbol>>, raised |-> FALSE]
    ELSE [rows |-> Append(rows, create_sustainability_record(symbol, item, t)),
          n_new |-> 1, n_upd |-> 0, ret |-> 1, keys |-> <<symbol>>, raised |-> FALSE]

insert_stock_sustainability(symbol, sustainability_data, fault) ==
    \E existing_record \in First(RowsOf(db.sustainability, symbol)) :
        Wrapper("insert_stock_sustainability", "sustainability", symbol,
                sustainability_data, fault, check_sustainability(sustainability_data),
                IF sustainability_data.items = <<>>
                THEN Reconciled(db.sustainability, <<>>, 0, <<>>, FALSE)
                ELSE bulk_process_sustainability_data(
                        db.sustainability, symbol, sustainability_data.items[1],
                        existing_record, now + 1))

(* Earnings estimate: src/insert_yf/stock_earnings_estimate.py              *)

\* value = data.get(json_key); if value is not None and not pd.isna(value):
\* try setattr(record, column, float(value)) (int(value) for
\* number_of_analysts) except (ValueError, TypeError): continue
estimate_value(old, cell) ==
    IF cell.k = "num" THEN cell ELSE old

\* The number of calls the wall clock stays in one calendar year.
YearLength == 2

\* datetime.now().year: the calendar year of the wall clock at time t,
\* counted from the year 2025.
datetime_now_year(t) == 2025 + (t \div YearLength)

\* The mutation of the field update that leaves the stored year alone.
keep_year_fields(record, estimate_data, current_year) ==
    [record EXCEPT
        !.avg_estimate = estimate_value(@, estimate_data.cells["avg"]),
        !.number_of_analysts = estimate_value(@, estimate_data.cells["numberOfAnalysts"])]

\* setattr(record, 'year', current_year), then the mapped fields.
update_earnings_estimate_fields(record, estimate_data, current_year) ==
    [record EXCEPT
        !.year = current_year,
        !.avg_estimate = estimate_value(@, estimate_data.cells["avg"]),
        !.number_of_analysts = estimate_value(@, estimate_data.cells["numberOfAnalysts"])]

create_earnings_estimate_record(symbol, period_type, estimate_data, current_year, t) ==
    update_earnings_estimate_fields(
        [symbol |-> symbol, period_type |-> period_type, year |-> current_year,
         avg_estimate |-> None, number_of_analysts |-> None,
         created_at |-> t, updated_at |-> t], estimate_data, current_year)

\* data is the table as a dict of its index: one entry per period type.
bulk_process_earnings_estimate_data(rows, symbol, items, existing_records, t) ==
    LET current_year == datetime_now_year(t)
        step[n \in 0..Len(items)] ==
            IF n = 0
            THEN [rows |-> rows, new |-> <<>>, upd |-> 0, keys |-> <<>>]
            ELSE
              LET a == step[n - 1]
                  period_type == items[n].period_type
              IN  IF period_type \in DOMAIN existing_records
                  THEN [a EXCEPT
                          !.rows[existing_records[period_type]] =
                              [update_earnings_estimate_fields(@, items[n], current_year)
                                  EXCEPT !.updated_at = t],
                          !.upd = @ + 1,
                          !.keys = Append(@, period_type)]
                  ELSE [a EXCEPT
                          !.new = Append(@, create_earnings_estimate_record(
                                      symbol, period_type, items[n], current_year, t)),
                          !.keys = Append(@, period_type)]
        r == step[Len(items)]
    IN  Reconciled(r.rows, r.new, r.upd, r.keys, FALSE)

PeriodTypeOf(rows) == [i \in DOMAIN rows |-> rows[i].period_type]

insert_stock_earnings_estimate(symbol, earnings_estimate_data, fault) ==
    \E existing_records \in
            ExistingRecords(PeriodTypeOf(db.earnings_estimates),
                            RowsOf(db.earnings_estimates, symbol)) :
        Wrapper("insert_stock_earnings_estimate", "earnings_estimates", symbol,
                earnings_estimate_data, fault,
                check_none_or_empty(earnings_estimate_data),
                bulk_process_earnings_estimate_data(
                    db.earnings_estimates, symbol, earnings_estimate_data.items,
                    existing_records, now + 1))

(* EPS trend: src/insert_yf/stock_eps_trend.py                              *)

\* setattr(record, 'year', current_year), then the mapped fields, each
\* float(value) when the value is there and converts.
update_eps_trend_fields(record, trend_data, current_year) ==
    [record EXCEPT
        !.year = current_year,
        !.current = estimate_value(@, trend_data.cells["current"]),
        !.days_ago_7 = estimate_value(@, trend_data.cells["7daysAgo"])]

create_eps_trend_record(symbol, period_type, trend_data, current_year, t) ==
    update_eps_trend_fields(
        [symbol |-> symbol, period_type |-> period_type, year |-> current_year,
         current |-> None, days_ago_7 |-> None,
         created_at |-> t, updated_at |-> t], trend_data, current_year)

bulk_process_eps_trend_data(rows, symbol, items, existing_records, t) ==
    LET current_year == datetime_now_year(t)
        step[n \in 0..Len(items)] ==
            IF n = 0
            THEN [rows |-> rows, new |-> <<>>, upd |-> 0, keys |-> <<>>]
            ELSE
              LET a == step[n - 1]
                  period_type == items[n].period_type
              IN  IF period_type \in DOMAIN existing_records
                  THEN [a EXCEPT
                          !.rows[existing_records[period_type]] =
                              [update_eps_trend_fields(@, items[n], current_year)
                                  EXCEPT !.updated_at = t],
                          !.upd = @ + 1,
                          !.keys = Append(@, period_type)]
                  ELSE [a EXCEPT
                          !.new = Append(@, create_eps_trend_record(
                                      symbol, period_type, items[n], current_year, t)),
                          !.keys = Append(@, period_type)]
        r == step[Len(items)]
    IN  Reconciled(r.rows, r.new, r.upd, r.keys, FALSE)

\* symbol = yf_client.ticker or ''; the ticker object is handed in, so the
\* wrapper has no step before its try block.
insert_stock_eps_trend(yf_client, eps_trend_data, fault) ==
    LET symbol == yf_client.ticker
    IN  \E existing_records \in
                ExistingRecords(PeriodTypeOf(db.eps_trends),
                                RowsOf(db.eps_trends, symbol)) :
            Wrapper("insert_stock_eps_trend", "eps_trends", symbol,
                    eps_trend_data, fault,
                    check_none_or_empty(eps_trend_data),
                    bulk_process_eps_trend_data(
                        db.eps_trends, symbol, eps_trend_data.items,
                        existing_records, now + 1))

(* Recommendations: src/insert_yf/stock_recommendations.py                  *)

\* value = data.get(json_key); if value is not None and not pd.isna(value):
\* try setattr(record, column, int(value)) except (ValueError, TypeError)
count_value(old, cell) ==
    IF cell.k = "num" THEN cell ELSE old

\* getattr(record, column, 0) or 0
or_0(value) == IF value.k = "num" THEN value.n ELSE 0

\* The five counts, then total_analysts = their sum, stored only
\* if total_analysts > 0.
update_recommendations_fields(record, recommendation_data) ==
    LET mapped ==
            [record EXCEPT
                !.strong_buy = count_value(@, recommendation_data.cells["strongBuy"]),
                !.buy = count_value(@, recommendation_data.cells["buy"]),
                !.hold = count_value(@, recommendation_data.cells["hold"]),
                !.sell = count_value(@, recommendation_data.cells["sell"]),
                !.strong_sell = count_value(@, recommendation_data.cells["strongSell"])]
        total_analysts ==
            or_0(mapped.strong_buy) + or_0(mapped.buy) + or_0(mapped.hold)
            + or_0(mapped.sell) + or_0(mapped.strong_sell)
    IN  IF total_analysts > 0
        THEN [mapped EXCEPT !.total_analysts = Num(total_analysts)]
        ELSE mapped

\* Column(Integer, default=0): a count the record does not set is stored
\* as 0 when the record is inserted; total_analysts has no default.
column_default(record) ==
    LET dflt(v) == IF v = None THEN Num(0) ELSE v
    IN  [record EXCEPT !.strong_buy = dflt(@), !.buy = dflt(@), !.hold = dflt(@),
                       !.sell = dflt(@), !.strong_sell = dflt(@)]

create_recommendations_record(symbol, recommendation_data, t) ==
    update_recommendations_fields(
        [symbol |-> symbol, period |-> recommendation_data.period,
         strong_buy |-> None, buy |-> None, hold |-> None, sell |-> None,
         strong_sell |-> None, total_analysts |-> None,
         created_at |-> t, updated_at |-> t], recommendation_data)

\* Per entry: if not period: continue; the stored record of (symbol, period)
\* is looked up among the committed rows (query ... .first(), the session
\* does not flush before a query), then updated, or a new record is added.
bulk_process_recommendations_data(rows, symbol, items, existing_records, t) ==
    LET step[n \in 0..Len(items)] ==
            IF n = 0
            THEN [rows |-> rows, new |-> <<>>, upd |-> 0, keys |-> <<>>]
            ELSE
              LET a == step[n - 1]
                  period == items[n].period
              IN  IF period = "" THEN a
                  ELSE IF period \in DOMAIN existing_records
                  THEN [a EXCEPT
                          !.rows[existing_records[period]] =
                              [update_recommendations_fields(@, items[n])
                                  EXCEPT !.updated_at = t],
                          !.upd = @ + 1,
                          !.keys = Append(@, period)]
                  ELSE [a EXCEPT
                          !.new = Append(@, column_default(
                                      create_recommendations_record(symbol, items[n], t))),
                          !.keys = Append(@, period)]
        r == step[Len(items)]
    IN  Reconciled(r.rows, r.new, r.upd, r.keys, FALSE)

PeriodOf(rows) == [i \in DOMAIN rows |-> rows[i].period]

insert_stock_recommendations(yf_client, recommendations_data, fault) ==
    LET symbol == yf_client.ticker
    IN  \E existing_records \in
                ExistingRecords(PeriodOf(db.recommendations),
                                RowsOf(db.recommendations, symbol)) :
            Wrapper("insert_stock_recommendations", "recommendations", symbol,
                    recommendations_data, fault,
                    check_none_or_empty(recommendations_data),
                    bulk_process_recommendations_data(
                        db.recommendations, symbol, recommendations_data.items,
                        existing_records, now + 1))

(* Mutual fund holders: src/insert_yf/stock_mutualfund_holders.py           *)

\* holder_data['Date Reported'].isoformat()[:24]
isoformat(date) == <<date.day, "T", date.tm>>

\* holder_data['Date Reported'].isoformat() raises for an entry without the
\* column (KeyError) and for a value that is None or a string
\* (AttributeError).
has_isoformat(date) == date.kind = "ts"

update_mutualfund_holders_fields(record, holder_data) ==
    [record EXCEPT !.shares = IF holder_data.cells["Shares"].k = "num"
                              THEN holder_data.cells["Shares"] ELSE @]

create_mutualfund_holders_record(symbol, date_str, holder_data, t) ==
    update_mutualfund_holders_fields(
        [symbol |-> symbol, date |-> date_str, holder |-> holder_data.Holder,
         shares |-> None, created_at |-> t, updated_at |-> t], holder_data)

\* For every entry with a holder name: query(...).filter(symbol, date,
\* holder).first() on the committed rows (the session is made with
\* autoflush=False, so a record added earlier in the call is not found), then
\* the update of that record or session.add of a new one.  stored gives, per
\* key, the row .first() returns.
bulk_process_mutualfund_holders_data(rows, symbol, items, stored, t) ==
    LET step[n \in 0..Len(items)] ==
            IF n = 0
            THEN [rows |-> rows, new |-> <<>>, upd |-> 0, keys |-> <<>>, raised |-> FALSE]
            ELSE
              LET a == step[n - 1]
                  date_str == isoformat(items[n].date_reported)
                  holder_name == items[n].Holder
                  key == <<date_str, holder_name>>
              IN  IF a.raised THEN a
                  ELSE IF ~has_isoformat(items[n].date_reported)
                  THEN [a EXCEPT !.raised = TRUE]
                  ELSE IF holder_name = "" THEN a
                  ELSE IF key \in DOMAIN stored
                  THEN [a EXCEPT
                          !.rows[stored[key]] =
                              [update_mutualfund_holders_fields(@, items[n])
                                  EXCEPT !.updated_at = t],
                          !.upd = @ + 1,
                          !.keys = Append(@, key)]
                  ELSE [a EXCEPT
                          !.new = Append(@, create_mutualfund_holders_record(
                                      symbol, date_str, items[n], t)),
                          !.keys = Append(@, key)]
        r == step[Len(items)]
    IN  Reconciled(r.rows, r.new, r.upd, r.keys, r.raised)

DateHolderOf(rows) == [i \in DOMAIN rows |-> <<rows[i].date, rows[i].holder>>]

insert_stock_mutualfund_holders(symbol, mutualfund_holders_data, fault) ==
    \E stored \in ExistingRecords(DateHolderOf(db.mutualfund_holders),
                                  RowsOf(db.mutualfund_holders, symbol)) :
        Wrapper("insert_stock_mutualfund_holders", "mutualfund_holders", symbol,
                mutualfund_holders_data, fault,
                check_none_or_empty(mutualfund_holders_data),
                bulk_process_mutualfund_holders_data(
                    db.mutualfund_holders, symbol, mutualfund_holders_data.items,
                    stored, now + 1))

(* Institutional holders: src/insert_yf/stock_institutional_holders.py      *)

\* holder_name.strip()
strip(holder_name) ==
    CASE holder_name = " Fund A " -> "Fund A"
      [] OTHER -> holder_name

\* not date_reported: None, and the None that .get gives for a missing column.
no_date(date) == date.kind \in {"none", "absent"}

\* pd.to_datetime(date_reported).strftime('%Y-%m-%d') for a string (its
\* first ten characters when that fails), str(date_reported)[:10] otherwise.
reported_date_str(date) == date.day

update_institutional_holders_fields(record, data) ==
    [record EXCEPT !.shares = IF data.cells["Shares"].k = "num"
                              THEN data.cells["Shares"] ELSE @]

create_institutional_holders_record(symbol, data, date_str, holder_name, t) ==
    update_institutional_holders_fields(
        [symbol |-> symbol, date |-> date_str, holder |-> holder_name,
         shares |-> None, created_at |-> t, updated_at |-> t], data)

\* existing_records is built once from the rows of the symbol; the entries
\* without a holder name or a report date are passed over, the others are
\* looked up under (date_str, stripped holder name) and update the record
\* found or join new_records.
bulk_process_institutional_holders_data(rows, symbol, items, existing_records, t) ==
    LET step[n \in 0..Len(items)] ==
            IF n = 0
            THEN [rows |-> rows, new |-> <<>>, upd |-> 0, keys |-> <<>>]
            ELSE
              LET a == step[n - 1]
                  date_reported == items[n].date_reported
                  date_str == reported_date_str(date_reported)
                  holder_name == strip(items[n].Holder)
                  record_key == <<date_str, holder_name>>
              IN  IF items[n].Holder = "" \/ no_date(date_reported) THEN a
                  ELSE IF record_key \in DOMAIN existing_records
                  THEN [a EXCEPT
                          !.rows[existing_records[record_key]] =
                              [update_institutional_holders_fields(@, items[n])
                                  EXCEPT !.updated_at = t],
                          !.upd = @ + 1,
                          !.keys = Append(@, record_key)]
                  ELSE [a EXCEPT
                          !.new = Append(@, create_institutional_holders_record(
                                      symbol, items[n], date_str, holder_name, t)),
                          !.keys = Append(@, record_key)]
        r == step[Len(items)]
    IN  Reconciled(r.rows, r.new, r.upd, r.keys, FALSE)

insert_stock_institutional_holders(symbol, institutional_holders_data, fault) ==
    \E existing_records \in ExistingRecords(DateHolderOf(db.institutional_holders),
                                            RowsOf(db.institutional_holders, symbol)) :
        Wrapper("insert_stock_institutional_holders", "institutional_holders", symbol,
                institutional_holders_data, fault,
                check_none_or_empty(institutional_holders_data),
                bulk_process_institutional_holders_data(
                    db.institutional_holders, symbol, institutional_holders_data.items,
                    existing_records, now + 1))

-----------------------------------------------------------------------------
(* The schedule drivers: src/commands/daily.py, src/commands/weekly.py      *)
(*     symbols = [company.get('Code', '')[:4] for company in companies]     *)
(*     errors = []                                                          *)
(*     for symbol in symbols:                                               *)
(*         yf_client = yf.Ticker(f'{symbol}.T')                             *)
(*         try:                                                             *)
(*             <the domain calls of the schedule, in order>                 *)
(*         except Exception as e:                                           *)
(*             errors.append(...)                                           *)
(*         time.sleep(0.1)                                                  *)
(*     print(errors)                                                        *)

\* A token value: a string, or None.
Token(v) == [k |-> "str", v |-> v]

NoToken == [k |-> "none", v |-> ""]

\* No directory client has been constructed: no request has been sent.
NoClient ==
    [pc |-> "none", clients |-> 0, refresh_token |-> NoToken, id_token |-> NoToken,
     Authorization |-> <<>>, companies |-> "none", calls |-> <<>>]

\* No script is running.
NoDriver ==
    [schedule |-> "none", symbols |-> <<>>, i |-> 0, pc |-> "idle",
     visited |-> <<>>, errors |-> <<>>, log |-> <<>>, jq |-> NoClient]

\* The domain calls inside the try block of each schedule, in program order.
steps ==
    [daily |-> <<"insert_stock_info", "insert_stock_history", "insert_stock_history_1m">>,
     weekly |-> <<"insert_stock_balancesheet">>]

\* f'{symbol}.T'
yf_symbol(code) ==
    CASE code = "7974" -> "7974.T"
      [] code = "9984" -> "9984.T"

\* The mutation of the try block that goes from a domain call to the one
\* after the next.
skip_a_step(schedule, k) ==
    IF k + 1 < Len(steps[schedule]) THEN steps[schedule][k + 2] ELSE "sleep"

\* The statement after the domain call at position k of the try block.
after_step(schedule, k) ==
    IF k < Len(steps[schedule]) THEN steps[schedule][k + 1] ELSE "sleep"

\* The mutation of the handler that lets the exception end the script.
reraise(d, e) == [d EXCEPT !.pc = "aborted"]

\* except Exception as e: errors.append(f"... {symbol}: {e}"); the script
\* goes on with the sleep.
except_Exception(d, e) ==
    [d EXCEPT !.errors = Append(@, e), !.pc = "sleep"]

\* The script after the domain call at position k: the call has returned and
\* the next statement of the try block follows, or it has raised and the
\* handler runs.
stepped(d, k, outcome) ==
    LET fn == steps[d.schedule][k]
        called == [d EXCEPT !.log = Append(@, [ticker |-> d.i, fn |-> fn, ev |-> "call"])]
    IN  IF outcome = "raised"
        THEN except_Exception(
                [called EXCEPT !.log = Append(@, [ticker |-> d.i, fn |-> fn, ev |-> "raise"])],
                [ticker |-> d.i, fn |-> fn])
        ELSE [called EXCEPT
                !.log = Append(@, [ticker |-> d.i, fn |-> fn, ev |-> "return"]),
                !.pc = after_step(d.schedule, k)]

Init ==
    /\ db = EmptyDb
    /\ now = 0
    /\ last = NoCall
    /\ hist = [clean |-> TRUE, allok |-> TRUE, keys |-> [t \in Tables |-> {}]]
    /\ driver = NoDriver

-----------------------------------------------------------------------------
(* Inputs of the runs.                                                      *)
Midnight == "00:00:00"

\* Every snapshot without a fault, and every fault on one snapshot.
Inputs(snapshots, probe) ==
    {[data |-> d, fault |-> "none"] : d \in snapshots}
    \cup {[data |-> probe, fault |-> f] : f \in Faults \ {"none"}}

\* None, the empty table, and the tables of one or two of the items.
TablesOf(items) ==
    {NoneData, Table(<<>>)} \cup {Table(s) : s \in SeqsOf(items, {1, 2})}

ActionItems ==
    {[date_index |-> Ts(d, Midnight), Dividends |-> c[1], StockSplits |-> c[2]] :
        d \in Days,
        c \in {<<Num(1), Num(0)>>, <<Num(0), Num(2)>>, <<Num(0), Num(0)>>, <<NaN, Absent>>}}

ActionProbe ==
    Table(<<[date_index |-> Ts("2024-01-01", Midnight), Dividends |-> Num(1),
             StockSplits |-> Num(0)]>>)

\* None, the empty table, every single item, and every pair of items that
\* starts on the first day (the second item on the same day or the next).
ActionSnapshots ==
    {NoneData, Table(<<>>)} \cup {Table(<<i>>) : i \in ActionItems}
    \cup {Table(<<i, j>>) :
            i \in {x \in ActionItems : x.date_index.day = "2024-01-01"},
            j \in ActionItems}

CallActions ==
    /\ now < MaxCalls
    /\ \E in \in Inputs(ActionSnapshots, ActionProbe) :
          insert_stock_actions("7974.T", in.data, in.fault)
    /\ UNCHANGED driver

DividendItems ==
    {[date_index |-> Ts(d, Midnight), Dividends |-> c] :
        d \in Days, c \in {Num(1), Num(0), NaN}}

DividendProbe ==
    Table(<<[date_index |-> Ts("2024-01-01", Midnight), Dividends |-> Num(1)]>>)

CallDividends ==
    /\ now < MaxCalls
    /\ \E in \in Inputs({NoneData, Table(<<>>)} \cup {Table(<<i>>) : i \in DividendItems},
                       DividendProbe) :
          insert_stock_dividends("7974.T", in.data, in.fault)
    /\ UNCHANGED driver

NextActions == CallActions \/ CallDividends

SpecActions == Init /\ [][NextActions]_vars

\* Daily bars.
HistoryItems ==
    {[date_index |-> Ts(d, Midnight), Open |-> c[1], Close |-> c[2]] :
        d \in Days,
        c \in {<<Num(1), Num(1)>>, <<Num(2), Num(1)>>, <<NaN, Absent>>}}

HistoryProbe ==
    Table(<<[date_index |-> Ts("2024-01-01", Midnight), Open |-> Num(1),
             Close |-> Num(1)]>>)

CallHistory ==
    /\ now < MaxCalls
    /\ \E in \in Inputs(TablesOf(HistoryItems), HistoryProbe) :
          insert_stock_history("7974.T", in.data, in.fault)
    /\ UNCHANGED driver

NextHistory == CallHistory

SpecHistory == Init /\ [][NextHistory]_vars

\* Statement tables: one item per date column.
BsItem(d, total_assets) ==
    [column_date |-> Ts(d, Midnight),
     cells |-> ("Total Assets" :> total_assets) @@ ("Current Assets" :> Num(7))]

BalancesheetTables ==
    {NoneData, Table(<<>>)}
    \cup {Table(<<BsItem(d, c)>>) : d \in Days, c \in {Num(100), Absent}}
    \cup {Table(<<BsItem("2024-01-01", NaN)>>),
          Table(<<BsItem("2024-01-01", Num(100)), BsItem("2024-01-02", Num(200))>>)}

BsProbe == Table(<<BsItem("2024-01-01", Num(100))>>)

\* The places of insert_stock_balancesheet where a collaborator can raise:
\* those of the annual block and those of the quarterly block.
BsFaults == Faults \cup {"fetch_q", "reconcile_q", "commit_q"}

BalancesheetInputs ==
    {[period |-> "annual", data |-> Statements(a, Table(<<>>)), fault |-> "none"] :
        a \in BalancesheetTables}
    \cup {[period |-> "quarterly", data |-> Statements(Table(<<>>), q), fault |-> "none"] :
        q \in BalancesheetTables}
    \cup {[period |-> "both", data |-> Statements(a, q), fault |-> "none"] :
        a \in {BsProbe, Table(<<>>)}, q \in {BsProbe, Table(<<>>), NoneData}}
    \cup {[period |-> "both", data |-> Statements(BsProbe, BsProbe), fault |-> f] :
        f \in BsFaults \ {"none"}}

CallBalancesheet ==
    /\ now < MaxCalls
    /\ \E in \in BalancesheetInputs :
          insert_stock_balancesheet("7974.T", in.period, in.data, in.fault)
    /\ UNCHANGED driver

CfItem(d, operating_cash_flow) ==
    [column_date |-> Ts(d, Midnight),
     cells |-> ("Operating Cash Flow" :> operating_cash_flow)
               @@ ("Free Cash Flow" :> Num(3))]

CashflowTables ==
    {Table(<<>>)}
    \cup {Table(<<CfItem(d, c)>>) : d \in Days, c \in {Num(50), Absent}}
    \cup {Table(<<CfItem("2024-01-01", NaN)>>)}

CfProbe == Table(<<CfItem("2024-01-01", Num(50))>>)

CashflowInputs ==
    {[data |-> Statements(a, q), fault |-> "none"] :
        a \in CashflowTables, q \in {CfProbe, Table(<<>>)}}
    \cup {[data |-> Statements(a, NoneData), fault |-> "none"] :
        a \in {NoneData, Table(<<>>), CfProbe}}
    \cup {[data |-> Statements(CfProbe, CfProbe), fault |-> f] :
        f \in Faults \ {"none"}}

CallCashflow ==
    /\ now < MaxCalls
    /\ \E in \in CashflowInputs : insert_stock_cashflow("7974.T", in.data, in.fault)
    /\ UNCHANGED driver

NextStatements == CallBalancesheet \/ CallCashflow

SpecStatements == Init /\ [][NextStatements]_vars

\* Financials and income statement: the revenue lines in every state of
\* presence, the gross profit line present.
FinItem(d, total_revenue, operating_revenue) ==
    [column_date |-> Ts(d, Midnight),
     cells |-> ("Total Revenue" :> total_revenue)
               @@ ("Operating Revenue" :> operating_revenue)
               @@ ("Gross Profit" :> Num(9))]

FinItems ==
    {FinItem(d, tr, op) :
        d \in Days,
        tr \in {Num(500), Absent, NaN, BadStr},
        op \in {Num(400), Absent}}

FinancialsTables ==
    {NoneData, Table(<<>>)} \cup {Table(<<i>>) : i \in FinItems}
    \cup {Table(<<FinItem("2024-01-01", Num(500), Num(400)),
                  FinItem("2024-01-02", Absent, Num(400))>>)}

FinProbe == Table(<<FinItem("2024-01-01", Num(500), Num(400))>>)

CallFinancials ==
    /\ now < MaxCalls
    /\ \E in \in Inputs(FinancialsTables, FinProbe) :
          insert_stock_financials("7974.T", in.data, in.fault)
    /\ UNCHANGED driver

CallIncomeStmt ==
    /\ now < MaxCalls
    /\ \E in \in Inputs(FinancialsTables, FinProbe) :
          insert_stock_income_stmt("7974.T", in.data, in.fault)
    /\ UNCHANGED driver

NextFinancials == CallFinancials \/ CallIncomeStmt

SpecFinancials == Init /\ [][NextFinancials]_vars

\* Dict- and list-shaped snapshots.
InfoItem(long_name, current_price) ==
    [cells |-> ("longName" :> long_name) @@ ("currentPrice" :> current_price)]

InfoSnapshots ==
    {NoneData, Dict(<<>>)}
    \cup {Dict(<<InfoItem(n, c)>>) : n \in {Text(1), Text(2), Absent},
                                     c \in {Num(10), Absent}}

InfoProbe == Dict(<<InfoItem(Text(1), Num(10))>>)

CalendarItem(earnings_high) ==
    [cells |-> ("Earnings High" :> earnings_high) @@ ("Earnings Average" :> Num(1))]

CalendarSnapshots ==
    {NoneData, Dict(<<>>)}
    \cup {Dict(<<CalendarItem(c)>>) : c \in {Num(1), Num(2), Absent}}

CalendarProbe == Dict(<<CalendarItem(Num(1))>>)

NewsItems == {[id |-> i, title |-> c] : i \in {"n1", "n2", ""}, c \in {Text(1), Text(2)}}

NewsSnapshots ==
    {NoneData, List(<<>>)} \cup {List(s) : s \in SeqsOf(NewsItems, {1, 2})}

NewsProbe == List(<<[id |-> "n1", title |-> Text(1)]>>)

SustainabilityItem(total_esg) == [cells |-> ("totalEsg" :> total_esg)]

SustainabilitySnapshots ==
    {NoneData, Dict(<<>>), Table(<<>>)}
    \cup {Dict(<<SustainabilityItem(c)>>) : c \in {Num(15), Num(20), Absent}}
    \cup {Table(<<SustainabilityItem(Num(15))>>)}

SustainabilityProbe == Dict(<<SustainabilityItem(Num(15))>>)

EstimateItem(period_type, avg, number_of_analysts) ==
    [period_type |-> period_type,
     cells |-> ("avg" :> avg) @@ ("numberOfAnalysts" :> number_of_analysts)]

EstimateSnapshots ==
    {NoneData, Table(<<>>)}
    \cup {Table(<<EstimateItem("0q", c[1], c[2])>>) :
            c \in {<<Num(1), Num(5)>>, <<Num(2), Num(5)>>, <<BadStr, Num(5)>>,
                   <<Num(1), BadStr>>, <<Absent, NaN>>}}
    \cup {Table(<<EstimateItem("0q", Num(1), Num(5)), EstimateItem("+1y", BadStr, Num(6))>>)}

EstimateProbe == Table(<<EstimateItem("0q", Num(1), Num(5))>>)

HolderItem(d, holder, shares) ==
    [date_reported |-> Ts(d, Midnight), Holder |-> holder, cells |-> ("Shares" :> shares)]

HolderSnapshots ==
    {NoneData, Table(<<>>)}
    \cup {Table(<<HolderItem("2024-01-01", h, c)>>) :
            h \in {"Fund A", ""}, c \in {Num(10), Num(20), NaN}}
    \cup {Table(<<HolderItem("2024-01-01", "Fund A", Num(10)),
                  HolderItem("2024-01-01", h, Num(20))>>) : h \in {"Fund A", "Fund B"}}

HolderProbe == Table(<<HolderItem("2024-01-01", "Fund A", Num(10))>>)

CallInfo ==
    /\ now < MaxCalls
    /\ \E symbol \in Symbols, in \in Inputs(InfoSnapshots, InfoProbe) :
          insert_stock_info(symbol, in.data, in.fault)
    /\ UNCHANGED driver

CallCalendar ==
    /\ now < MaxCalls
    /\ \E symbol \in Symbols, in \in Inputs(CalendarSnapshots, CalendarProbe) :
          insert_stock_calendar(symbol, in.data, in.fault)
    /\ UNCHANGED driver

CallNews ==
    /\ now < MaxCalls
    /\ \E symbol \in Symbols, in \in Inputs(NewsSnapshots, NewsProbe) :
          insert_stock_news(symbol, in.data, in.fault)
    /\ UNCHANGED driver

CallSustainability ==
    /\ now < MaxCalls
    /\ \E symbol \in Symbols, in \in Inputs(SustainabilitySnapshots, SustainabilityProbe) :
          insert_stock_sustainability(symbol, in.data, in.fault)
    /\ UNCHANGED driver

NextSnapshots == CallInfo \/ CallCalendar \/ CallNews \/ CallSustainability

SpecSnapshots == Init /\ [][NextSnapshots]_vars

\* The run over every wrapper and both symbols: a few snapshots of each
\* shape per wrapper.
ActionItem(d, dividends, stock_splits) ==
    [date_index |-> Ts(d, Midnight), Dividends |-> dividends, StockSplits |-> stock_splits]

FewActionSnapshots ==
    {NoneData, Table(<<>>), ActionProbe,
     Table(<<ActionItem("2024-01-01", Num(0), Num(2))>>),
     Table(<<ActionItem("2024-01-01", Num(0), Num(0))>>),
     Table(<<ActionItem("2024-01-01", Num(1), Num(0)),
             ActionItem("2024-01-02", NaN, Absent)>>)}

FewDividendSnapshots ==
    {NoneData, Table(<<>>), DividendProbe,
     Table(<<[date_index |-> Ts("2024-01-01", Midnight), Dividends |-> Num(0)]>>),
     Table(<<[date_index |-> Ts("2024-01-01", Midnight), Dividends |-> Num(2)],
             [date_index |-> Ts("2024-01-02", Midnight), Dividends |-> NaN]>>)}

HistoryItem(d, open) ==
    [date_index |-> Ts(d, Midnight), Open |-> open, Close |-> Num(1)]

FewHistorySnapshots ==
    {NoneData, Table(<<>>), HistoryProbe,
     Table(<<HistoryItem("2024-01-01", Num(2))>>),
     Table(<<HistoryItem("2024-01-01", Num(1)), HistoryItem("2024-01-02", Num(1))>>),
     Table(<<HistoryItem("2024-01-01", Num(1)), HistoryItem("2024-01-01", Num(2))>>)}

FewBalancesheetInputs ==
    {[period |-> "annual", data |-> Statements(a, Table(<<>>)), fault |-> "none"] :
        a \in {NoneData, Table(<<>>), BsProbe, Table(<<BsItem("2024-01-01", Absent)>>)}}
    \cup {[period |-> "both", data |-> Statements(BsProbe, q), fault |-> "none"] :
        q \in {BsProbe, NoneData}}
    \cup {[period |-> "both", data |-> Statements(BsProbe, BsProbe), fault |-> f] :
        f \in BsFaults \ {"none"}}

FewFinancialsTables ==
    {NoneData, Table(<<>>), FinProbe,
     Table(<<FinItem("2024-01-01", Absent, Num(400))>>),
     Table(<<FinItem("2024-01-01", NaN, Absent)>>)}

FewCashflowInputs ==
    {[data |-> Statements(a, q), fault |-> "none"] :
        a \in {CfProbe, Table(<<>>)}, q \in {CfProbe, Table(<<>>)}}
    \cup {[data |-> Statements(NoneData, NoneData), fault |-> "none"],
          [data |-> Statements(Table(<<CfItem("2024-01-01", Absent)>>), Table(<<>>)),
           fault |-> "none"]}
    \cup {[data |-> Statements(CfProbe, CfProbe), fault |-> f] : f \in Faults \ {"none"}}

FewNewsSnapshots ==
    {NoneData, List(<<>>)} \cup {List(<<i>>) : i \in NewsItems}
    \cup {List(<<[id |-> "n1", title |-> Text(1)], [id |-> "", title |-> Text(2)]>>),
          List(<<[id |-> "n1", title |-> Text(1)], [id |-> "n2", title |-> Text(2)]>>)}

IngestActions ==
    /\ now < MaxCallsAll
    /\ \E symbol \in Symbols, in \in Inputs(FewActionSnapshots, ActionProbe) :
          insert_stock_actions(symbol, in.data, in.fault)
    /\ UNCHANGED driver

IngestDividends ==
    /\ now < MaxCallsAll
    /\ \E symbol \in Symbols, in \in Inputs(FewDividendSnapshots, DividendProbe) :
          insert_stock_dividends(symbol, in.data, in.fault)
    /\ UNCHANGED driver

IngestHistory ==
    /\ now < MaxCallsAll
    /\ \E symbol \in Symbols, in \in Inputs(FewHistorySnapshots, HistoryProbe) :
          insert_stock_history(symbol, in.data, in.fault)
    /\ UNCHANGED driver

\* The intraday step of the daily driver.
IngestHistoryIntraday ==
    /\ now < MaxCallsAll
    /\ \E symbol \in Symbols :
          call_stock_history(symbol, {"interval"}, HistoryProbe, "none")
    /\ UNCHANGED driver

IngestBalancesheet ==
    /\ now < MaxCallsAll
    /\ \E symbol \in Symbols, in \in FewBalancesheetInputs :
          insert_stock_balancesheet(symbol, in.period, in.data, in.fault)
    /\ UNCHANGED driver

IngestFinancials ==
    /\ now < MaxCallsAll
    /\ \E symbol \in Symbols, in \in Inputs(FewFinancialsTables, FinProbe) :
          insert_stock_financials(symbol, in.data, in.fault)
    /\ UNCHANGED driver

IngestIncomeStmt ==
    /\ now < MaxCallsAll
    /\ \E symbol \in Symbols, in \in Inputs(FewFinancialsTables, FinProbe) :
          insert_stock_income_stmt(symbol, in.data, in.fault)
    /\ UNCHANGED driver

IngestCashflow ==
    /\ now < MaxCallsAll
    /\ \E symbol \in Symbols, in \in FewCashflowInputs :
          insert_stock_cashflow(symbol, in.data, in.fault)
    /\ UNCHANGED driver

IngestInfo ==
    /\ now < MaxCallsAll
    /\ \E symbol \in Symbols, in \in Inputs(InfoSnapshots, InfoProbe) :
          insert_stock_info(symbol, in.data, in.fault)
    /\ UNCHANGED driver

IngestCalendar ==
    /\ now < MaxCallsAll
    /\ \E symbol \in Symbols, in \in Inputs(CalendarSnapshots, CalendarProbe) :
          insert_stock_calendar(symbol, in.data, in.fault)
    /\ UNCHANGED driver

IngestNews ==
    /\ now < MaxCallsAll
    /\ \E symbol \in Symbols, in \in Inputs(FewNewsSnapshots, NewsProbe) :
          insert_stock_news(symbol, in.data, in.fault)
    /\ UNCHANGED driver

IngestSustainability ==
    /\ now < MaxCallsAll
    /\ \E symbol \in Symbols, in \in Inputs(SustainabilitySnapshots, SustainabilityProbe) :
          insert_stock_sustainability(symbol, in.data, in.fault)
    /\ UNCHANGED driver

IngestEarningsEstimate ==
    /\ now < MaxCallsAll
    /\ \E symbol \in Symbols, in \in Inputs(EstimateSnapshots, EstimateProbe) :
          insert_stock_earnings_estimate(symbol, in.data, in.fault)
    /\ UNCHANGED driver

IngestMutualfundHolders ==
    /\ now < MaxCallsAll
    /\ \E symbol \in Symbols, in \in Inputs(HolderSnapshots, HolderProbe) :
          insert_stock_mutualfund_holders(symbol, in.data, in.fault)
    /\ UNCHANGED driver

Next ==
    \/ IngestActions \/ IngestDividends \/ IngestHistory \/ IngestHistoryIntraday
    \/ IngestBalancesheet \/ IngestFinancials \/ IngestIncomeStmt \/ IngestCashflow
    \/ IngestInfo \/ IngestCalendar \/ IngestNews \/ IngestSustainability
    \/ IngestEarningsEstimate \/ IngestMutualfundHolders

Spec == Init /\ [][Next]_vars

-----------------------------------------------------------------------------
(* Every wrapper on one symbol: per wrapper a snapshot of one key, a         *)
(* snapshot of another key, and every failure.                               *)
OneSymbol == "7974.T"

UpsertActions ==
    /\ now < MaxCallsAll
    /\ \E in \in Inputs({ActionProbe,
                        Table(<<ActionItem("2024-01-02", Num(0), Num(2))>>)}, ActionProbe) :
          insert_stock_actions(OneSymbol, in.data, in.fault)
    /\ UNCHANGED driver

UpsertDividends ==
    /\ now < MaxCallsAll
    /\ \E in \in Inputs({DividendProbe,
                        Table(<<[date_index |-> Ts("2024-01-02", Midnight), Dividends |-> Num(2)]>>)}, DividendProbe) :
          insert_stock_dividends(OneSymbol, in.data, in.fault)
    /\ UNCHANGED driver

UpsertHistory ==
    /\ now < MaxCallsAll
    /\ \E in \in Inputs({HistoryProbe,
                        Table(<<HistoryItem("2024-01-02", Num(2))>>)}, HistoryProbe) :
          insert_stock_history(OneSymbol, in.data, in.fault)
    /\ UNCHANGED driver

UpsertFinancials ==
    /\ now < MaxCallsAll
    /\ \E in \in Inputs({FinProbe,
                        Table(<<FinItem("2024-01-02", Absent, Num(400))>>)}, FinProbe) :
          insert_stock_financials(OneSymbol, in.data, in.fault)
    /\ UNCHANGED driver

UpsertIncomeStmt ==
    /\ now < MaxCallsAll
    /\ \E in \in Inputs({FinProbe,
                        Table(<<FinItem("2024-01-02", Absent, Num(400))>>)}, FinProbe) :
          insert_stock_income_stmt(OneSymbol, in.data, in.fault)
    /\ UNCHANGED driver

UpsertInfo ==
    /\ now < MaxCallsAll
    /\ \E in \in Inputs({InfoProbe,
                        Dict(<<InfoItem(Text(2), Absent)>>),
                        Dict(<<InfoItem(Text(2), BadStr)>>)}, InfoProbe) :
          insert_stock_info(OneSymbol, in.data, in.fault)
    /\ UNCHANGED driver

UpsertCalendar ==
    /\ now < MaxCallsAll
    /\ \E in \in Inputs({CalendarProbe,
                        Dict(<<CalendarItem(Num(2))>>),
                        Dict(<<CalendarItem(BadStr)>>)}, CalendarProbe) :
          insert_stock_calendar(OneSymbol, in.data, in.fault)
    /\ UNCHANGED driver

UpsertNews ==
    /\ now < MaxCallsAll
    /\ \E in \in Inputs({NewsProbe,
                        List(<<[id |-> "n2", title |-> Text(2)]>>)}, NewsProbe) :
          insert_stock_news(OneSymbol, in.data, in.fault)
    /\ UNCHANGED driver

UpsertSustainability ==
    /\ now < MaxCallsAll
    /\ \E in \in Inputs({SustainabilityProbe,
                        Dict(<<SustainabilityItem(Num(20))>>)}, SustainabilityProbe) :
          insert_stock_sustainability(OneSymbol, in.data, in.fault)
    /\ UNCHANGED driver

UpsertEarningsEstimate ==
    /\ now < MaxCallsAll
    /\ \E in \in Inputs({EstimateProbe,
                        Table(<<EstimateItem("+1y", Num(2), BadStr)>>)}, EstimateProbe) :
          insert_stock_earnings_estimate(OneSymbol, in.data, in.fault)
    /\ UNCHANGED driver

UpsertMutualfundHolders ==
    /\ now < MaxCallsAll
    /\ \E in \in Inputs({HolderProbe,
                        Table(<<HolderItem("2024-01-01", "Fund B", Num(20))>>)}, HolderProbe) :
          insert_stock_mutualfund_holders(OneSymbol, in.data, in.fault)
    /\ UNCHANGED driver

UpsertBalancesheet ==
    /\ now < MaxCallsAll
    /\ \E in \in {[period |-> "both", data |-> Statements(BsProbe, BsProbe), fault |-> f] :
                        f \in BsFaults}
                 \cup {[period |-> "annual", fault |-> "none",
                        data |-> Statements(Table(<<BsItem("2024-01-02", Num(200))>>),
                                            Table(<<>>))]} :
          insert_stock_balancesheet(OneSymbol, in.period, in.data, in.fault)
    /\ UNCHANGED driver

UpsertCashflow ==
    /\ now < MaxCallsAll
    /\ \E in \in {[data |-> Statements(CfProbe, CfProbe), fault |-> f] : f \in Faults}
                 \cup {[fault |-> "none",
                        data |-> Statements(Table(<<CfItem("2024-01-02", Num(50))>>),
                                            Table(<<>>))]} :
          insert_stock_cashflow(OneSymbol, in.data, in.fault)
    /\ UNCHANGED driver

NextWrappers ==
    \/ UpsertActions \/ UpsertDividends \/ UpsertHistory \/ UpsertBalancesheet
    \/ UpsertFinancials \/ UpsertIncomeStmt \/ UpsertCashflow \/ UpsertInfo
    \/ UpsertCalendar \/ UpsertNews \/ UpsertSustainability
    \/ UpsertEarningsEstimate \/ UpsertMutualfundHolders

SpecWrappers == Init /\ [][NextWrappers]_vars

-----------------------------------------------------------------------------
(* The two holder wrappers on one symbol: entries with the report date as a *)
(* temporal value, as a string, None or missing, and with the holder name   *)
(* plain, padded with blanks or missing.                                    *)
NoDate == [kind |-> "none", day |-> "", tm |-> ""]
AbsentDate == [kind |-> "absent", day |-> "", tm |-> ""]

HolderEntry(date_reported, holder, shares) ==
    [date_reported |-> date_reported, Holder |-> holder, cells |-> ("Shares" :> shares)]

HolderDates == {Ts("2024-01-01", Midnight), IsoStr("2024-01-01"), NoDate, AbsentDate}

HolderNames == {"Fund A", " Fund A ", ""}

HolderTables ==
    {NoneData, Table(<<>>)}
    \cup {Table(<<HolderEntry(d, h, Num(10))>>) : d \in HolderDates, h \in HolderNames}
    \cup {Table(<<HolderItem("2024-01-01", "Fund A", Num(20))>>)}
    \cup {Table(<<HolderItem("2024-01-01", "Fund B", Num(20)), HolderEntry(d, h, Num(10))>>) :
            d \in {Ts("2024-01-01", Midnight), NoDate}, h \in {"Fund A", ""}}
    \cup {Table(<<HolderEntry(d, "", Num(10)), HolderItem("2024-01-01", "Fund B", Num(20))>>) :
            d \in {Ts("2024-01-01", Midnight), NoDate}}

CallMutualfundHolders ==
    /\ now < MaxCalls
    /\ \E in \in Inputs(HolderTables, HolderProbe) :
          insert_stock_mutualfund_holders(OneSymbol, in.data, in.fault)
    /\ UNCHANGED driver

CallInstitutionalHolders ==
    /\ now < MaxCalls
    /\ \E in \in Inputs(HolderTables, HolderProbe) :
          insert_stock_institutional_holders(OneSymbol, in.data, in.fault)
    /\ UNCHANGED driver

NextHolders == CallMutualfundHolders \/ CallInstitutionalHolders

SpecHolders == Init /\ [][NextHolders]_vars

-----------------------------------------------------------------------------
(* The estimate wrappers keyed by relative period code, called over the     *)
(* turn of a calendar year.                                                 *)
TrendItem(period_type, current, days_ago_7) ==
    [period_type |-> period_type,
     cells |-> ("current" :> current) @@ ("7daysAgo" :> days_ago_7)]

PeriodTypes == {"0q", "+1y"}

\* None, the empty table, and the tables of one or two period types.
EstimateTables ==
    {NoneData, Table(<<>>)}
    \cup {Table(<<EstimateItem(p, c, Num(5))>>) :
            p \in PeriodTypes, c \in {Num(1), NaN}}
    \cup {Table(<<EstimateItem("0q", Num(2), Num(5)), EstimateItem("+1y", Num(3), Num(6))>>)}

TrendTables ==
    {NoneData, Table(<<>>)}
    \cup {Table(<<TrendItem(p, c, Num(1))>>) :
            p \in PeriodTypes, c \in {Num(1), NaN}}
    \cup {Table(<<TrendItem("0q", Num(2), Num(1)), TrendItem("+1y", Num(3), Num(2))>>)}

TrendProbe == Table(<<TrendItem("0q", Num(1), Num(1))>>)

CallEarningsEstimate ==
    /\ now < MaxCalls
    /\ \E symbol \in Symbols, in \in Inputs(EstimateTables, EstimateProbe) :
          insert_stock_earnings_estimate(symbol, in.data, in.fault)
    /\ UNCHANGED driver

CallEpsTrend ==
    /\ now < MaxCalls
    /\ \E symbol \in Symbols, in \in Inputs(TrendTables, TrendProbe) :
          /\ in.fault # "obtain"
          /\ insert_stock_eps_trend([ticker |-> symbol], in.data, in.fault)
    /\ UNCHANGED driver

NextEstimates == CallEarningsEstimate \/ CallEpsTrend

SpecEstimates == Init /\ [][NextEstimates]_vars

-----------------------------------------------------------------------------
(* The recommendations wrapper.                                             *)
\* An entry of the recommendations table: a period and the five counts, of
\* which strongBuy, buy and hold vary.
RecommendationItem(period, strongBuy, buy, hold) ==
    [period |-> period,
     cells |-> ("strongBuy" :> strongBuy) @@ ("buy" :> buy) @@ ("hold" :> hold)
               @@ ("sell" :> Num(0)) @@ ("strongSell" :> Num(0))]

RecommendationItems ==
    {RecommendationItem(p, c[1], c[2], c[3]) :
        p \in {"0m", "-1m", ""},
        c \in {<<Num(2), Num(1), Num(0)>>, <<Num(0), Num(0), Num(0)>>}}
    \cup {RecommendationItem("0m", BadStr, Num(3), NaN)}

RecommendationTables ==
    {NoneData, Table(<<>>)} \cup {Table(s) : s \in SeqsOf(RecommendationItems, {1, 2})}

RecommendationProbe == Table(<<RecommendationItem("0m", Num(2), Num(1), Num(0))>>)

CallRecommendations ==
    /\ now < MaxCalls
    /\ \E in \in Inputs(RecommendationTables, RecommendationProbe) :
          /\ in.fault # "obtain"
          /\ insert_stock_recommendations([ticker |-> OneSymbol], in.data, in.fault)
    /\ UNCHANGED driver

NextRecommendations == CallRecommendations

SpecRecommendations == Init /\ [][NextRecommendations]_vars

-----------------------------------------------------------------------------
(* The security-directory client: src/utils/jquants.py.  A script constructs *)
(* a client, which posts the credentials and then the refresh token, and    *)
(* asks it for the listing.  The service answers each request with a JSON   *)
(* body that has the field asked for or lacks it, or the request fails.     *)
MaxClients == 2

RefreshTokens == {Token("r1"), Token("r2")}

IdTokens == {Token("t1"), Token("t2")}

\* str(token) inside an f-string: the text of the token, 'None' for None.
format(token) == IF token.k = "none" THEN "None" ELSE token.v

\* f'Bearer {id_token}'
Bearer(id_token) == <<"Bearer", format(id_token)>>

\* A request that fails, or a body that is no JSON: the call raises.
Raises == [k |-> "raise", v |-> ""]

\* response.json().get(field): the token of the body, None when the body
\* lacks the field, or the call raises.
Answers(tokens) == tokens \cup {NoToken, Raises}

\* The answers of the service to /token/auth_refresh: an id token only for
\* a refresh token it is given.
RefreshAnswers(refresh_token) ==
    IF refresh_token.k = "none" THEN {NoToken, Raises} ELSE Answers(IdTokens)

\* A request of client c, with what it carried and the token of the answer.
Request(c, url, carried, got) == [client |-> c, url |-> url, carried |-> carried, got |-> got]

\* jq_client = JQuantsClient(): the session and its headers.
NewClient ==
    /\ driver.pc = "idle"
    /\ driver.jq.pc \in {"none", "raised", "listed"}
    /\ driver.jq.clients < MaxClients
    /\ driver' = [driver EXCEPT
                    !.jq = [NoClient EXCEPT !.pc = "auth_user",
                                            !.clients = driver.jq.clients + 1,
                                            !.calls = driver.jq.calls]]
    /\ UNCHANGED <<db, now, last, hist>>

\* session.post(f"{base_url}/token/auth_user", json={mailaddress, password});
\* refresh_token = response.json().get('refreshToken')
auth_user ==
    /\ driver.jq.pc = "auth_user"
    /\ \E answer \in Answers(RefreshTokens) :
          LET got == IF answer = Raises THEN NoToken ELSE answer
              call == Request(driver.jq.clients, "/token/auth_user",
                               <<"json", "credentials">>, got)
          IN  driver' = [driver EXCEPT
                            !.jq.calls = Append(@, call),
                            !.jq.refresh_token = got,
                            !.jq.pc = IF answer = Raises THEN "raised" ELSE "auth_refresh"]
    /\ UNCHANGED <<db, now, last, hist>>

\* session.post(f"{base_url}/token/auth_refresh", params={'refreshtoken':
\* refresh_token}); id_token = response.json().get('idToken'); the header
\* 'Authorization': f'Bearer {id_token}' is set on the session.
auth_refresh ==
    /\ driver.jq.pc = "auth_refresh"
    /\ \E answer \in RefreshAnswers(driver.jq.refresh_token) :
          LET got == IF answer = Raises THEN NoToken ELSE answer
              call == Request(driver.jq.clients, "/token/auth_refresh",
                              <<"params", driver.jq.refresh_token>>, got)
          IN  driver' =
                IF answer = Raises
                THEN [driver EXCEPT !.jq.calls = Append(@, call), !.jq.pc = "raised"]
                ELSE [driver EXCEPT
                        !.jq.calls = Append(@, call),
                        !.jq.id_token = got,
                        !.jq.Authorization = Bearer(got),
                        !.jq.pc = "ready"]
    /\ UNCHANGED <<db, now, last, hist>>

\* res = session.get(f'{base_url}/listed/info'); return res.json().get('info'):
\* the listing for a bearer token the service issued, None otherwise.
getCompanies ==
    /\ driver.jq.pc = "ready"
    /\ \E companies \in (IF driver.jq.id_token.k = "none"
                          THEN {"None"} ELSE {"info", "None"}) :
          driver' = [driver EXCEPT
                        !.jq.calls = Append(@, Request(driver.jq.clients, "/listed/info",
                                                       driver.jq.Authorization,
                                                       NoToken)),
                        !.jq.companies = companies,
                        !.jq.pc = "listed"]
    /\ UNCHANGED <<db, now, last, hist>>

NextDirectory == NewClient \/ auth_user \/ auth_refresh \/ getCompanies

SpecDirectory == Init /\ [][NextDirectory]_vars

-----------------------------------------------------------------------------
(* The date-keyed wrappers given one item per snapshot, its date as a       *)
(* temporal value or as the ISO-8601 string of the same day.                *)
DateForms == {Ts(d, Midnight) : d \in Days} \cup {IsoStr(d) : d \in Days}

DatedActions ==
    /\ now < MaxCalls
    /\ \E in \in Inputs({Table(<<[date_index |-> d, Dividends |-> Num(n),
                                   StockSplits |-> Num(0)]>>) :
                            d \in DateForms, n \in {1, 2}}, ActionProbe) :
          insert_stock_actions(OneSymbol, in.data, in.fault)
    /\ UNCHANGED driver

DatedHistory ==
    /\ now < MaxCalls
    /\ \E in \in Inputs({Table(<<[date_index |-> d, Open |-> Num(n), Close |-> Num(1)]>>) :
                            d \in DateForms, n \in {1, 2}}, HistoryProbe) :
          insert_stock_history(OneSymbol, in.data, in.fault)
    /\ UNCHANGED driver

DatedMutualfundHolders ==
    /\ now < MaxCalls
    /\ \E in \in Inputs({Table(<<HolderEntry(d, "Fund A", Num(n))>>) :
                            d \in DateForms, n \in {10, 20}}, HolderProbe) :
          insert_stock_mutualfund_holders(OneSymbol, in.data, in.fault)
    /\ UNCHANGED driver

DatedInstitutionalHolders ==
    /\ now < MaxCalls
    /\ \E in \in Inputs({Table(<<HolderEntry(d, "Fund A", Num(n))>>) :
                            d \in DateForms, n \in {10, 20}}, HolderProbe) :
          insert_stock_institutional_holders(OneSymbol, in.data, in.fault)
    /\ UNCHANGED driver

NextDates ==
    \/ DatedActions \/ DatedHistory \/ DatedMutualfundHolders
    \/ DatedInstitutionalHolders

SpecDates == Init /\ [][NextDates]_vars

-----------------------------------------------------------------------------
(* A run of a schedule script.                                              *)

\* Number of companies the directory service lists.
MaxTickers == 2

\* company.get('Code', '')[:4] of the listed companies.
Codes == {"7974", "9984"}

\* What the domain calls of a script meet.  The client handed to
\* insert_stock_info and insert_stock_balancesheet is the Ticker the script
\* has just built, so reading its ticker attribute does not fail;
\* insert_stock_history is handed that Ticker where it expects the symbol
\* string and builds yf.Ticker(symbol) from it, which can raise.
DriverInfoInputs ==
    {[data |-> InfoProbe, fault |-> "none"], [data |-> NoneData, fault |-> "none"],
     [data |-> InfoProbe, fault |-> "fetch"]}

DriverHistoryInputs ==
    {[data |-> HistoryProbe, fault |-> f] : f \in {"none", "obtain", "fetch"}}

DriverBalancesheetInputs ==
    {[data |-> Statements(Table(<<>>), q), fault |-> "none"] : q \in {BsProbe, Table(<<>>), NoneData}}
    \cup {[data |-> Statements(Table(<<>>), BsProbe), fault |-> "reconcile_q"]}

\* The ticker of the iteration in progress.
yf_client == yf_symbol(driver.symbols[driver.i])

\* The script starts: the directory service has answered with its list.
StartDriver ==
    /\ driver.pc = "idle"
    /\ \E schedule \in DOMAIN steps, symbols \in SeqsOf(Codes, 0..MaxTickers) :
          driver' = [NoDriver EXCEPT !.schedule = schedule, !.symbols = symbols,
                                     !.pc = "for"]
    /\ UNCHANGED <<db, now, last, hist>>

\* for symbol in symbols: the next ticker and its client, or the end of the loop.
Iterate ==
    /\ driver.pc = "for"
    /\ driver' = IF driver.i < Len(driver.symbols)
                 THEN [driver EXCEPT !.i = @ + 1, !.visited = Append(@, driver.i + 1),
                                     !.pc = steps[driver.schedule][1]]
                 ELSE [driver EXCEPT !.pc = "print"]
    /\ UNCHANGED <<db, now, last, hist>>

DailyInfo ==
    /\ driver.schedule = "daily" /\ driver.pc = "insert_stock_info"
    /\ \E in \in DriverInfoInputs : insert_stock_info(yf_client, in.data, in.fault)
    /\ driver' = stepped(driver, 1, last'.outcome)

DailyHistory ==
    /\ driver.schedule = "daily" /\ driver.pc = "insert_stock_history"
    /\ \E in \in DriverHistoryInputs : insert_stock_history(yf_client, in.data, in.fault)
    /\ driver' = stepped(driver, 2, last'.outcome)

DailyIntraday ==
    /\ driver.schedule = "daily" /\ driver.pc = "insert_stock_history_1m"
    /\ call_stock_history(yf_client, {"interval"}, HistoryProbe, "none")
    /\ driver' = stepped(driver, 3, last'.outcome)

WeeklyBalancesheet ==
    /\ driver.schedule = "weekly" /\ driver.pc = "insert_stock_balancesheet"
    /\ \E in \in DriverBalancesheetInputs :
          insert_stock_balancesheet(yf_client, "quarterly", in.data, in.fault)
    /\ driver' = stepped(driver, 1, last'.outcome)

\* time.sleep(0.1)
Sleep ==
    /\ driver.pc = "sleep"
    /\ driver' = [driver EXCEPT !.pc = "for"]
    /\ UNCHANGED <<db, now, last, hist>>

\* print(errors)
PrintErrors ==
    /\ driver.pc = "print"
    /\ driver' = [driver EXCEPT !.pc = "done"]
    /\ UNCHANGED <<db, now, last, hist>>

NextDriver ==
    \/ StartDriver \/ Iterate \/ DailyInfo \/ DailyHistory \/ DailyIntraday
    \/ WeeklyBalancesheet \/ Sleep \/ PrintErrors

SpecDriver == Init /\ [][NextDriver]_vars

\* The script is one sequential process: a statement that can be executed is
\* executed, and every call into the provider or the storage returns or raises.
SpecDriverFair == SpecDriver /\ WF_vars(NextDriver)

-----------------------------------------------------------------------------
(* Vocabulary of the properties.                                            *)

TableOf(fn) ==
    CASE fn = "insert_stock_actions" -> "actions"
      [] fn = "insert_stock_dividends" -> "dividends"
      [] fn = "insert_stock_history" -> "history"
      [] fn = "insert_stock_balancesheet" -> "balancesheets"
      [] fn = "insert_stock_financials" -> "financials"
      [] fn = "insert_stock_income_stmt" -> "income_statements"
      [] fn = "insert_stock_cashflow" -> "cash_flows"
      [] fn = "insert_stock_info" -> "stock_info"
      [] fn = "insert_stock_calendar" -> "calendars"
      [] fn = "insert_stock_news" -> "news"
      [] fn = "insert_stock_sustainability" -> "sustainability"
      [] fn = "insert_stock_earnings_estimate" -> "earnings_estimates"
      [] fn = "insert_stock_eps_trend" -> "eps_trends"
      [] fn = "insert_stock_recommendations" -> "recommendations"
      [] fn = "insert_stock_mutualfund_holders" -> "mutualfund_holders"
      [] fn = "insert_stock_institutional_holders" -> "institutional_holders"

\* The composite natural key of a stored row, with the symbol it belongs to.
RowKey(t, r) ==
    CASE t \in {"actions", "dividends", "history", "history_1min",
                "income_statements"} -> r.date
      [] t \in {"balancesheets", "financials", "cash_flows"} -> <<r.date, r.period_type>>
      [] t \in {"stock_info", "calendars", "sustainability"} -> r.symbol
      [] t = "news" -> r.id
      [] t \in {"earnings_estimates", "eps_trends"} -> r.period_type
      [] t = "recommendations" -> r.period
      [] t \in {"mutualfund_holders", "institutional_holders"} -> <<r.date, r.holder>>

StoredKey(t, r) == <<KeyOwner(t, r.symbol), RowKey(t, r)>>

StoredKeys(rows, t) == {StoredKey(t, rows[i]) : i \in DOMAIN rows}

\* The items of a call's snapshot, each with the key it derives.
Keyed(items, key(_)) ==
    {[key |-> key(it), item |-> it] : it \in Range(items)}

CallItems(c) ==
    CASE c.fn \in {"insert_stock_actions", "insert_stock_dividends"} ->
            Keyed(c.data.items, LAMBDA it : date_str_of(it.date_index))
      [] c.fn = "insert_stock_history" ->
            Keyed(c.data.items, LAMBDA it : format_date(it.date_index))
      [] c.fn = "insert_stock_balancesheet" ->
            (IF c.period \in {"annual", "both"}
             THEN Keyed(c.data.annual.items,
                        LAMBDA it : <<date_str_of(it.column_date), "annual">>)
             ELSE {})
            \cup (IF c.period \in {"quarterly", "both"}
                  THEN Keyed(c.data.quarterly.items,
                             LAMBDA it : <<date_str_of(it.column_date), "quarterly">>)
                  ELSE {})
      [] c.fn = "insert_stock_cashflow" ->
            Keyed(c.data.annual.items,
                  LAMBDA it : <<date_str_of(it.column_date), "annual">>)
            \cup Keyed(c.data.quarterly.items,
                       LAMBDA it : <<date_str_of(it.column_date), "quarterly">>)
      [] c.fn = "insert_stock_financials" ->
            Keyed(c.data.items, LAMBDA it : <<date_str_of(it.column_date), "annual">>)
      [] c.fn = "insert_stock_income_stmt" ->
            Keyed(c.data.items, LAMBDA it : date_str_of(it.column_date))
      [] c.fn \in {"insert_stock_info", "insert_stock_calendar",
                   "insert_stock_sustainability"} ->
            Keyed(c.data.items, LAMBDA it : c.symbol)
      [] c.fn = "insert_stock_news" ->
            Keyed(c.data.items, LAMBDA it : it.id)
      [] c.fn \in {"insert_stock_earnings_estimate", "insert_stock_eps_trend"} ->
            Keyed(c.data.items, LAMBDA it : it.period_type)
      [] c.fn = "insert_stock_recommendations" ->
            Keyed(c.data.items, LAMBDA it : it.period)
      [] c.fn = "insert_stock_mutualfund_holders" ->
            Keyed(c.data.items, LAMBDA it : <<isoformat(it.date_reported), it.Holder>>)
      [] c.fn = "insert_stock_institutional_holders" ->
            Keyed(c.data.items,
                  LAMBDA it : <<reported_date_str(it.date_reported), strip(it.Holder)>>)

\* The data columns of a table, each with the source names it is mapped from.
Col(col, names) == [col |-> col, names |-> names]

ColumnSources(t) ==
    CASE t = "actions" -> {Col("dividends", {"Dividends"}),
                           Col("stock_splits", {"StockSplits"})}
      [] t = "dividends" -> {Col("dividends", {"Dividends"})}
      [] t = "history" -> {Col("open", {"Open"}), Col("close", {"Close"})}
      [] t = "balancesheets" -> {Col("total_assets", {"Total Assets"}),
                                 Col("current_assets", {"Current Assets"})}
      [] t \in {"financials", "income_statements"} ->
            {Col("total_revenue", Range(field_mappings.total_revenue)),
             Col("operating_revenue", Range(field_mappings.operating_revenue)),
             Col("gross_profit", Range(field_mappings.gross_profit))}
      [] t = "cash_flows" -> {Col("operating_cash_flow", {"Operating Cash Flow"}),
                              Col("free_cash_flow", {"Free Cash Flow"})}
      [] t = "stock_info" -> {Col("long_name", {"longName"}),
                              Col("current_price", {"currentPrice"})}
      [] t = "calendars" -> {Col("earnings_high", {"Earnings High"}),
                             Col("earnings_average", {"Earnings Average"})}
      [] t = "news" -> {Col("title", {"title"})}
      [] t = "sustainability" -> {Col("total_esg", {"totalEsg"})}
      [] t = "earnings_estimates" -> {Col("avg_estimate", {"avg"}),
                                      Col("number_of_analysts", {"numberOfAnalysts"})}
      [] t = "recommendations" -> {Col("strong_buy", {"strongBuy"}),
                                   Col("buy", {"buy"}), Col("hold", {"hold"}),
                                   Col("sell", {"sell"}),
                                   Col("strong_sell", {"strongSell"})}
      [] t = "eps_trends" -> {Col("current", {"current"}),
                              Col("days_ago_7", {"7daysAgo"})}
      [] t \in {"mutualfund_holders", "institutional_holders"} ->
            {Col("shares", {"Shares"})}

\* The cell of an item under a source name.
SourceCell(item, name) ==
    IF "cells" \in DOMAIN item THEN item.cells[name] ELSE item[name]

\* The data columns of a row, and a table with the stamps put aside.
Unstamped(rows) == [i \in DOMAIN rows |-> [rows[i] EXCEPT !.updated_at = 0]]

\* The stored rows the last call was about: of its table, its symbol.
LastTable == TableOf(last.fn)

LastOk == last.outcome = "ok"

\* Row i of the table before the call carries the key of a keyed item.
Targets(t, r, c, key) ==
    /\ RowKey(t, r) = key
    /\ KeyOwner(t, r.symbol) = KeyOwner(t, c.symbol)

-----------------------------------------------------------------------------
(* One row per key.                                                         *)

\* Every table holds one row per stored key, and the stored keys are the
\* keys ingested so far.
OneRowPerKey ==
    \A t \in Tables :
        /\ Cardinality(StoredKeys(db[t], t)) = Len(db[t])
        /\ StoredKeys(db[t], t) = hist.keys[t]

\* The last call, having found the key of one of its items stored, updated
\* the row of that key: the row carries the stamp of the call.
ReingestUpdates ==
    \A i \in DOMAIN last.pre[LastTable], k \in Range(last.keys) :
        Targets(LastTable, last.pre[LastTable][i], last, k)
            => db[LastTable][i].updated_at = now

\* C1: after any sequence of successful wrapper calls whose snapshots each
\* derive pairwise-distinct keys, every table holds exactly one row per key
\* ever ingested, and a call that re-ingests a stored key updates the row of
\* that key and adds no second row.
C1_OneRowPerKeyAndUpdate ==
    (hist.clean /\ hist.allok) =>
        /\ OneRowPerKey
        /\ LastOk => ReingestUpdates

\* The part of C1 about the number of rows.
Lemma_OneRowPerKey == (hist.clean /\ hist.allok) => OneRowPerKey

\* The update half of C1 for every wrapper but the calendar's.
Lemma_ReingestUpdates ==
    (hist.clean /\ hist.allok /\ LastOk /\ last.fn # "insert_stock_calendar")
        => ReingestUpdates

-----------------------------------------------------------------------------
(* Re-running a snapshot.                                                   *)

\* C2: a wrapper invoked twice in a row with the same non-empty snapshot
\* performs, the second time, zero inserts and N updates, N being the number
\* of items not skipped, returns N, and leaves every persisted column other
\* than updated_at as the first invocation left it.
C2_RerunIsIdempotent ==
    (last.repeat /\ LastOk) =>
        /\ last.n_new = 0
        /\ last.n_upd = Len(last.keys)
        /\ last.ret = Len(last.keys)
        /\ Unstamped(db[LastTable]) = Unstamped(last.pre[LastTable])

-----------------------------------------------------------------------------
(* Null-preserving update.                                                  *)

\* The item omits the field of a column: none of the column's source names
\* is in the item.
Omits(item, names) == \A n \in names : SourceCell(item, n) = Absent

\* C3: when the snapshot of an update omits, under every candidate source
\* name, a field that the stored row of the item's key has populated, the
\* persisted value of that field is unchanged by the update.
C3_UpdateKeepsOmittedField ==
    LastOk =>
        \A i \in DOMAIN last.pre[LastTable], ci \in CallItems(last),
           cs \in ColumnSources(LastTable) :
            ( /\ Targets(LastTable, last.pre[LastTable][i], last, ci.key)
              /\ Omits(ci.item, cs.names)
              /\ last.pre[LastTable][i][cs.col] # None )
            => db[LastTable][i][cs.col] = last.pre[LastTable][i][cs.col]

-----------------------------------------------------------------------------
(* Atomicity.                                                               *)

\* C4: when an exception occurs in a wrapper call after its transaction was
\* opened (the reconciliation or the commit raises, and the session rolls
\* back), the committed storage after the call is the committed storage
\* before it, and the call returns 0.
C4_FailedCallLeavesStorage ==
    (last.outcome = "error" /\ last.rollbacks > 0) =>
        /\ db = last.pre
        /\ last.ret = 0

-----------------------------------------------------------------------------
(* Daily bars: inserts, updates and row count.                              *)

\* The rows of a symbol in a table, as positions.
SymbolRows(rows, symbol) == {i \in DOMAIN rows : rows[i].symbol = symbol}

\* The rows of the table before the call that the call stamped.
StampedRows == {i \in DOMAIN last.pre[LastTable] : db[LastTable][i].updated_at = now}

\* C5: insert_stock_history on storage holding the key set E of the symbol,
\* given a snapshot of pairwise-distinct keys S, inserts |S \ E| rows,
\* updates |S \cap E| rows, returns |S|, and leaves |E \cup S| rows of the
\* symbol.
C5_HistoryCounts ==
    (last.fn = "insert_stock_history" /\ LastOk /\ Distinct(last.keys)) =>
        LET pre == last.pre.history
            E == {pre[i].date : i \in SymbolRows(pre, last.symbol)}
            S == Range(last.keys)
        IN  /\ Len(db.history) - Len(pre) = Cardinality(S \ E)
            /\ Cardinality(StampedRows) = Cardinality(S \cap E)
            /\ last.ret = Cardinality(S)
            /\ Cardinality(SymbolRows(db.history, last.symbol)) = Cardinality(E \cup S)

\* The counts of C5 on storage that holds one row per stored bar.
Lemma_HistoryCounts ==
    (Cardinality(StoredKeys(last.pre.history, "history")) = Len(last.pre.history))
        => C5_HistoryCounts

-----------------------------------------------------------------------------
(* Zero-row skip of the corporate actions.                                  *)

\* A source amount that counts as zero: 0.0, NaN, None, or no such column.
ZeroAmount(cell) == cell = Num(0) \/ isna(cell) \/ cell = Absent

ZeroItem(item) == ZeroAmount(item.Dividends) /\ ZeroAmount(item.StockSplits)

\* The dates of the snapshot that only zero items carry.
ZeroOnlyDates(items) ==
    {date_str_of(items[n].date_index) : n \in {m \in DOMAIN items : ZeroItem(items[m])}}
    \ {date_str_of(items[n].date_index) : n \in {m \in DOMAIN items : ~ZeroItem(items[m])}}

\* C6: a date of an actions snapshot whose Dividends and Stock Splits are
\* both 0.0 (or NaN or absent) yields no inserted row and no update for that
\* date and is not counted in the return value; no persisted actions row has
\* dividends = 0 and stock_splits = 0 together.
C6_ZeroRowSkipped ==
    /\ \A i \in DOMAIN db.actions :
          ~(db.actions[i].dividends = Num(0) /\ db.actions[i].stock_splits = Num(0))
    /\ (last.fn = "insert_stock_actions" /\ LastOk) =>
          LET items == last.data.items
              pre == last.pre.actions
          IN  /\ last.ret = Cardinality({n \in DOMAIN items : ~ZeroItem(items[n])})
              /\ \A d \in ZeroOnlyDates(items) :
                    /\ \A i \in DOMAIN pre :
                          (pre[i].symbol = last.symbol /\ pre[i].date = d)
                              => db.actions[i] = pre[i]
                    /\ \A i \in DOMAIN db.actions \ DOMAIN pre :
                          db.actions[i].date # d

\* A call given a zero item beside a non-zero one on storage that holds the
\* zero item's date: only the non-zero item is counted.
C6_Witness ==
    /\ last.fn = "insert_stock_actions" /\ LastOk
    /\ Len(last.data.items) = 2
    /\ ZeroOnlyDates(last.data.items) # {}
    /\ last.ret = 1
    /\ \E i \in DOMAIN last.pre.actions :
          last.pre.actions[i].date \in ZeroOnlyDates(last.data.items)

-----------------------------------------------------------------------------
(* Candidate priority of the statement mappings.                            *)

\* A cell float() accepts: present, not None, not NaN.
Numeric(cell) == cell.k = "num"

\* The value the priority rule gives a column: that of the candidate before
\* which no candidate is numeric, or the value the column had.
ByPriority(item, json_keys, old) ==
    IF \E i \in DOMAIN json_keys : Numeric(item.cells[json_keys[i]])
    THEN LET i == CHOOSE i \in DOMAIN json_keys :
                    /\ Numeric(item.cells[json_keys[i]])
                    /\ \A j \in 1..(i - 1) : ~Numeric(item.cells[json_keys[j]])
         IN  item.cells[json_keys[i]]
    ELSE old

\* C7: in the financials and income-statement mappings every destination
\* column takes the value of the first candidate source name, in listed
\* order, that is present and numeric; a later candidate is used only when
\* every earlier one is absent, NaN or not coercible; with no usable
\* candidate the column is left as it was (NULL on insert).  The rows are
\* those the call wrote, each compared with the item of its key (a snapshot
\* has one date column per period).
C7_FirstCandidateWins ==
    (last.fn \in {"insert_stock_financials", "insert_stock_income_stmt"}
        /\ LastOk /\ Distinct(last.keys)) =>
        \A i \in DOMAIN db[LastTable], ci \in CallItems(last),
           col \in DOMAIN field_mappings :
            ( /\ db[LastTable][i].updated_at = now
              /\ Targets(LastTable, db[LastTable][i], last, ci.key) )
            => db[LastTable][i][col] =
                   ByPriority(ci.item, field_mappings[col],
                              IF i \in DOMAIN last.pre[LastTable]
                              THEN last.pre[LastTable][i][col] ELSE None)

\* Both revenue lines present: total_revenue takes 'Total Revenue' (500) and
\* operating_revenue takes 'Operating Revenue' (400); and a call whose
\* 'Total Revenue' is unusable has taken the later candidate.
C7_Witness ==
    /\ last.fn = "insert_stock_financials" /\ LastOk
    /\ \E i \in DOMAIN db.financials :
          /\ db.financials[i].updated_at = now
          /\ db.financials[i].total_revenue = Num(400)
          /\ db.financials[i].operating_revenue = Num(400)
    /\ \E i \in DOMAIN last.pre.financials :
          /\ last.pre.financials[i].total_revenue = Num(500)
          /\ last.pre.financials[i].operating_revenue = Num(400)

-----------------------------------------------------------------------------
(* What the caller sees.                                                    *)

\* C8: every wrapper invocation returns an integer to its caller and never
\* propagates an exception, wherever the failure is: obtaining the provider
\* client or the symbol, the fetch, the reconciliation or the storage.
C8_NeverPropagates ==
    last.fn # "none" => (last.outcome # "raised" /\ last.ret \in Nat)

\* The fetched snapshot is empty in one of the provider's shapes: None, the
\* empty table, the empty dict or list; for a call that reads the annual and
\* the quarterly table, every table it reads is.
EmptyShape(data) == data.shape # "statements" /\ data.items = <<>>

EmptySnapshot(c) ==
    IF c.data.shape = "statements"
    THEN /\ (c.fn = "insert_stock_cashflow" \/ c.period \in {"annual", "both"})
                => EmptyShape(c.data.annual)
         /\ (c.fn = "insert_stock_cashflow" \/ c.period \in {"quarterly", "both"})
                => EmptyShape(c.data.quarterly)
    ELSE EmptyShape(c.data)

\* C9: a wrapper whose fetched snapshot is empty in any of the provider's
\* shapes takes the empty-result path: it returns 0 without an error, opens
\* no transaction and leaves the storage as it was.
C9_EmptyIsNotFailure ==
    (last.fn # "none" /\ last.fault = "none" /\ EmptySnapshot(last)) =>
        /\ last.outcome = "empty"
        /\ last.ret = 0
        /\ last.opened = 0
        /\ db = last.pre

\* The rows of the table that the call created, and the rows it patched.
CreatedRows == DOMAIN db[LastTable] \ DOMAIN last.pre[LastTable]

PatchedRows ==
    {i \in DOMAIN last.pre[LastTable] : db[LastTable][i] # last.pre[LastTable][i]}

\* C10: the count a successful call returns is the number of rows it inserted
\* plus the number of stored rows it updated, which is the number of rows
\* whose committed state the call created or patched; skipped items are not
\* counted.
C10_CountIsRowsTouched ==
    LastOk =>
        /\ last.ret = last.n_new + last.n_upd
        /\ last.ret = Cardinality(CreatedRows) + Cardinality(PatchedRows)

\* The count of C10 for the calls on snapshots of pairwise-distinct keys and
\* on storage of one row per key, the calendar's and the daily bars' apart.
Lemma_CountIsRowsTouched ==
    (/\ LastOk /\ Distinct(last.keys)
     /\ Cardinality(StoredKeys(last.pre[LastTable], LastTable)) = Len(last.pre[LastTable])
     /\ last.fn \notin {"insert_stock_calendar"})
        => C10_CountIsRowsTouched

-----------------------------------------------------------------------------
(* Referential integrity.                                                   *)

\* symbol = Column(String(20), ForeignKey('stock_info.symbol'), ...): the
\* tables whose symbol column is declared to reference stock_info.
Referencing == Tables \ {"stock_info"}

\* A quote-snapshot row of the symbol is stored.
HasStockInfo(symbol) == \E j \in DOMAIN db.stock_info : db.stock_info[j].symbol = symbol

-----------------------------------------------------------------------------
(* Rows are never deleted.                                                  *)

\* C12: across any sequence of wrapper calls the set of persisted composite
\* keys of every table never shrinks: the keys stored after a step include
\* the keys stored before it, also when the snapshot of the step no longer
\* contains a key ingested before.
C12_RowsNeverDeleted ==
    [][\A t \in Tables : StoredKeys(db[t], t) \subseteq StoredKeys(db'[t], t)]_vars

\* A successful call that inserted a row while the table held a row of the
\* same symbol under a key the call's snapshot does not contain: that row is
\* stored as it was.
C12_Witness ==
    /\ LastOk /\ last.n_new > 0
    /\ \E i \in DOMAIN last.pre[LastTable] :
          /\ last.pre[LastTable][i].symbol = last.symbol
          /\ RowKey(LastTable, last.pre[LastTable][i]) \notin Range(last.keys)
          /\ db[LastTable][i] = last.pre[LastTable][i]

-----------------------------------------------------------------------------
(* The schedule scripts run to their end.                                   *)

\* The tickers of the list that the loop has entered, in the order entered:
\* the first driver.i positions, each once.
VisitedInOrder ==
    /\ driver.i <= Len(driver.symbols)
    /\ driver.visited = [n \in 1..driver.i |-> n]

\* A domain call of the iteration of ticker n raised to the script.
Failing(n) == \E k \in DOMAIN driver.log : driver.log[k].ticker = n /\ driver.log[k].ev = "raise"

\* One error string at most per ticker, and only for a ticker one of whose
\* domain calls raised.
OneErrorPerFailingTicker ==
    /\ \A a, b \in DOMAIN driver.errors :
          driver.errors[a].ticker = driver.errors[b].ticker => a = b
    /\ \A a \in DOMAIN driver.errors : Failing(driver.errors[a].ticker)

\* C13: whatever fails inside the domain calls, the loop of a schedule script
\* visits every ticker of the list exactly once, appends at most one error
\* string per failing ticker, and the script reaches its final print of the
\* error list.
C13_DriverRunsToTheEnd ==
    /\ [](VisitedInOrder /\ OneErrorPerFailingTicker)
    /\ [](driver.pc \in {"print", "done"} => driver.i = Len(driver.symbols))
    /\ [](driver.pc # "idle" => <>(driver.pc = "done"))

\* The daily script at its end after two tickers, one whose daily-history
\* call raised and one whose iteration got as far as the 1-minute call.
C13_Witness ==
    /\ driver.pc = "done" /\ driver.schedule = "daily"
    /\ Len(driver.symbols) = 2 /\ Len(driver.visited) = 2
    /\ Len(driver.errors) = 2
    /\ driver.errors[1].fn = "insert_stock_history"
    /\ driver.errors[2].fn = "insert_stock_history_1m"

-----------------------------------------------------------------------------
(* NaN and non-numeric source values.                                       *)

\* The columns of a table declared Float or Integer.
NumericColumns(t) ==
    {cs \in ColumnSources(t) : cs.col \notin {"long_name", "title"}}

\* The item gives the column no number, and under one of the column's source
\* names a value that is NaN or not numeric.
NoNumberFor(item, names) ==
    /\ \A n \in names : SourceCell(item, n).k # "num"
    /\ \E n \in names : SourceCell(item, n).k \in {"nan", "str"}

\* No two items of the call's snapshot derive one key.
OneItemPerKey(c) == \A a, b \in CallItems(c) : a.key = b.key => a = b

\* C14: a source value that is NaN or non-numeric never changes the persisted
\* value of its column on update and yields NULL for the column on insert;
\* no numeric column ever holds NaN, and an update never replaces a stored
\* number by NULL because the new source value was NaN.
C14_NaNLeavesColumn ==
    /\ \A t \in Tables : \A i \in DOMAIN db[t] : \A cs \in NumericColumns(t) :
          db[t][i][cs.col] # NaN
    /\ (LastOk /\ OneItemPerKey(last)) =>
          \A i \in DOMAIN db[LastTable], ci \in CallItems(last),
             cs \in NumericColumns(LastTable) :
            ( /\ Targets(LastTable, db[LastTable][i], last, ci.key)
              /\ NoNumberFor(ci.item, cs.names) )
            => db[LastTable][i][cs.col] =
                   (IF i \in DOMAIN last.pre[LastTable]
                    THEN last.pre[LastTable][i][cs.col] ELSE None)

-----------------------------------------------------------------------------
(* Coercion failures.                                                       *)

\* The cells an item carries for a column.
CellsFor(item, names) == {SourceCell(item, n) : n \in names}

\* Every value the item carries for the column is one the column type
\* rejects.
Uncoercible(item, names) ==
    /\ CellsFor(item, names) \subseteq {BadStr, Absent}
    /\ BadStr \in CellsFor(item, names)

\* Every value the item carries for the column is a number.
Coercible(item, names) ==
    /\ \A c \in CellsFor(item, names) : c.k \in {"num", "absent"}
    /\ \E c \in CellsFor(item, names) : c.k = "num"

HasUncoercible(c) ==
    \E ci \in CallItems(c), cs \in ColumnSources(TableOf(c.fn)) :
        Uncoercible(ci.item, cs.names)

\* C15: a call whose snapshot carries a value that cannot be coerced to its
\* column type, and that meets no fault, succeeds; the row of each item holds
\* for such a column what it held before the call (NULL for a new row), and
\* for every column the item carries a number for, that number.
C15_CoercionFailureIsLocal ==
    (/\ last.fn # ""
     /\ last.fault = "none"
     /\ last.data.shape \in {"table", "dict"}
     /\ OneItemPerKey(last)
     /\ HasUncoercible(last)) =>
        /\ LastOk
        /\ \A ci \in CallItems(last) :
              /\ \E i \in DOMAIN db[LastTable] :
                    Targets(LastTable, db[LastTable][i], last, ci.key)
              /\ \A i \in DOMAIN db[LastTable], cs \in ColumnSources(LastTable) :
                    Targets(LastTable, db[LastTable][i], last, ci.key) =>
                        /\ Uncoercible(ci.item, cs.names) =>
                              db[LastTable][i][cs.col] =
                                  IF i \in DOMAIN last.pre[LastTable]
                                  THEN last.pre[LastTable][i][cs.col] ELSE None
                        /\ Coercible(ci.item, cs.names) =>
                              db[LastTable][i][cs.col] \in CellsFor(ci.item, cs.names)

-----------------------------------------------------------------------------
(* Commits of a call.                                                       *)

\* The commits of a trace that went through: a commit that raises is the
\* one followed by the rollback of the scope.
Committed(events) ==
    Cardinality({i \in DOMAIN events :
                    /\ events[i] = "commit"
                    /\ (i = Len(events) \/ events[i + 1] # "rollback")})

\* C16: a wrapper call that succeeds has committed exactly once on its
\* storage session, and a call that opened a session and fails has committed
\* nothing and rolled back once.
C16_ExactlyOneCommit ==
    /\ LastOk => Committed(last.events) = 1
    /\ (last.outcome = "error" /\ last.opened > 0) =>
          /\ Committed(last.events) = 0
          /\ last.rollbacks = 1

-----------------------------------------------------------------------------
(* Colliding keys within one snapshot.                                      *)

\* The rows the last call added to its table.
Added == {i \in DOMAIN db[LastTable] : i > Len(last.pre[LastTable])}

\* C17: the rows one successful call adds carry pairwise different keys, and
\* none of them a key that was stored before the call: a key that two items
\* of the snapshot derive is inserted once.
C17_CollidingKeyInsertedOnce ==
    LastOk =>
        \A i \in Added, j \in DOMAIN db[LastTable] :
            i # j => StoredKey(LastTable, db[LastTable][i])
                        # StoredKey(LastTable, db[LastTable][j])

-----------------------------------------------------------------------------
(* The domain steps of an iteration.                                        *)

\* The iterations of the loop that have left their try block.
Finished ==
    {n \in 1..driver.i : n < driver.i \/ driver.pc \in {"sleep", "for", "print", "done"}}

\* The times the script has invoked a step for ticker n.
Invocations(n, fn) ==
    Cardinality({k \in DOMAIN driver.log :
                    /\ driver.log[k].ticker = n
                    /\ driver.log[k].fn = fn
                    /\ driver.log[k].ev = "call"})

\* C18: for every ticker whose iteration of the daily script is over, the
\* stock-info, the daily-history and the 1-minute-history ingestion have
\* each been invoked exactly once, whatever the earlier steps came to.
C18_EveryStepInvoked ==
    driver.schedule = "daily" =>
        \A n \in Finished, k \in DOMAIN steps.daily :
            Invocations(n, steps.daily[k]) = 1

-----------------------------------------------------------------------------
(* Transaction discipline.                                                  *)

\* The sessions open after the first n calls of a trace.
Depth(events, n) ==
    Cardinality({i \in 1..n : events[i] = "open"})
        - Cardinality({i \in 1..n : events[i] = "close"})

\* C19: at every point of a wrapper call at most one storage session is
\* open; every session the call opened is closed when the call returns, and
\* the last thing done on it before the close is a commit or a rollback; a
\* rollback is followed by the failure of the call, which returns 0.
C19_TransactionDiscipline ==
    /\ \A n \in 0..Len(last.events) : Depth(last.events, n) \in {0, 1}
    /\ Depth(last.events, Len(last.events)) = 0
    /\ \A i \in DOMAIN last.events :
          last.events[i] = "close" =>
              i > 1 /\ last.events[i - 1] \in {"commit", "rollback"}
    /\ last.rollbacks > 0 => (last.outcome = "error" /\ last.ret = 0)
    /\ LastOk => (last.opened > 0 /\ last.rollbacks = 0)

\* A balance-sheet call of both periods whose annual session committed and
\* closed before the quarterly session was opened, rolled back and closed.
C19_Witness ==
    /\ last.fn = "insert_stock_balancesheet"
    /\ last.events = <<"open", "commit", "commit", "close", "open", "rollback", "close">>
    /\ last.outcome = "error"

-----------------------------------------------------------------------------
(* Program order of a script.                                               *)

\* The position of a domain call in the try block of the schedule.
Rank(fn) ==
    CHOOSE k \in DOMAIN steps[driver.schedule] : steps[driver.schedule][k] = fn

\* Entry k of the log opens a domain call, entry k + 1 ends the same call.
CallEnds(k) ==
    /\ k + 1 \in DOMAIN driver.log
    /\ driver.log[k + 1].ev \in {"return", "raise"}
    /\ driver.log[k + 1].ticker = driver.log[k].ticker
    /\ driver.log[k + 1].fn = driver.log[k].fn

\* Entry k opens the step that follows, in the try block, the step that
\* returned just before it for the same ticker; or it opens the first step
\* of a ticker, the calls of the ticker before having ended.
InProgramOrder(k) ==
    IF Rank(driver.log[k].fn) = 1
    THEN k = 1 \/ driver.log[k - 1].ticker = driver.log[k].ticker - 1
    ELSE /\ k > 1
         /\ driver.log[k - 1].ticker = driver.log[k].ticker
         /\ driver.log[k - 1].ev = "return"
         /\ Rank(driver.log[k - 1].fn) = Rank(driver.log[k].fn) - 1

\* C20: the tickers are processed in the order of the list of the directory
\* service; every domain call has ended before the next one starts, those of
\* ticker i before any of ticker i+1; and within a ticker of the daily script
\* stock-info ingestion returns before daily-history ingestion starts, which
\* returns before 1-minute-history ingestion starts.
C20_ProgramOrder ==
    /\ VisitedInOrder
    /\ \A a, b \in DOMAIN driver.log : a < b => driver.log[a].ticker <= driver.log[b].ticker
    /\ \A k \in DOMAIN driver.log :
          /\ driver.log[k].ticker \in 1..driver.i
          /\ driver.log[k].ev = "call" <=> k % 2 = 1
          /\ driver.log[k].ev = "call" => (CallEnds(k) /\ InProgramOrder(k))
    /\ (driver.pc = "sleep" \/ (driver.log # <<>> /\ driver.pc = "for")) =>
          /\ driver.log[Len(driver.log)].ticker = driver.i
          /\ last.symbol = yf_symbol(driver.symbols[driver.i])

\* The daily script in its second iteration, at the sleep after the
\* 1-minute call: the three calls of the first ticker and then the three of
\* the second are in the log.
C20_Witness ==
    /\ driver.schedule = "daily" /\ driver.i = 2 /\ driver.pc = "sleep"
    /\ Len(driver.log) = 12
    /\ driver.log[6].ticker = 1 /\ driver.log[7].ticker = 2
    /\ driver.log[11] = [ticker |-> 2, fn |-> "insert_stock_history_1m", ev |-> "call"]
    /\ driver.symbols[1] # driver.symbols[2]

-----------------------------------------------------------------------------
(* What an update leaves alone.                                             *)

\* The rows stored before the last call are still stored, each with its
\* symbol, its key columns and its created_at; the tables of the other
\* domains are as they were.
FrameKept ==
    \A t \in Tables :
        /\ \A i \in DOMAIN last.pre[t] :
              /\ i \in DOMAIN db[t]
              /\ db[t][i].symbol = last.pre[t][i].symbol
              /\ RowKey(t, db[t][i]) = RowKey(t, last.pre[t][i])
              /\ db[t][i].created_at = last.pre[t][i].created_at
        /\ (last.fn # "none" /\ t # LastTable) => db[t] = last.pre[t]

\* Every stored row carries the time of the call that created it and the
\* time of a call not before that one.
Stamped ==
    \A t \in Tables : \A i \in DOMAIN db[t] :
        /\ db[t][i].created_at \in 1..now
        /\ db[t][i].updated_at \in db[t][i].created_at..now

\* C21: an ingestion leaves the symbol, the key columns and the created_at of
\* every stored row as they were, every row has created_at and updated_at
\* set, and, storage holding one row per key, a call that finds the key of
\* one of its items stored stamps updated_at of that row.
C21_UpdateFrame ==
    /\ FrameKept
    /\ Stamped
    /\ (hist.clean /\ hist.allok /\ LastOk) => ReingestUpdates

\* The part of C21 about what an update leaves alone and about the stamps of
\* inserted rows.
Lemma_FrameAndStamps == FrameKept /\ Stamped

-----------------------------------------------------------------------------
(* The two holder strategies.                                               *)

\* The two holder tables hold the same entries: row by row the same symbol,
\* report day, holder name and shares.
Corresponds(mutualfund, institutional) ==
    /\ Len(mutualfund) = Len(institutional)
    /\ \A i \in DOMAIN mutualfund :
          /\ mutualfund[i].symbol = institutional[i].symbol
          /\ mutualfund[i].date[1] = institutional[i].date
          /\ strip(mutualfund[i].holder) = institutional[i].holder
          /\ mutualfund[i].shares = institutional[i].shares

\* C22: a mutual-fund-holders call on a table that holds the same entries as
\* the institutional-holders table comes to what the institutional
\* reconciliation of the same snapshot comes to: the same outcome, the same
\* numbers of inserted and updated entries, the same count and the same
\* derived keys.
C22_HolderStrategiesEquivalent ==
    (/\ last.fn = "insert_stock_mutualfund_holders"
     /\ last.fault = "none"
     /\ last.data.shape = "table" /\ last.data.items # <<>>
     /\ Corresponds(last.pre.mutualfund_holders, db.institutional_holders)) =>
        \A existing_records \in
                ExistingRecords(DateHolderOf(db.institutional_holders),
                                RowsOf(db.institutional_holders, last.symbol)) :
            LET I == bulk_process_institutional_holders_data(
                        db.institutional_holders, last.symbol, last.data.items,
                        existing_records, now)
            IN  /\ LastOk
                /\ I.n_new = last.n_new
                /\ I.n_upd = last.n_upd
                /\ I.ret = last.ret
                /\ I.keys = last.keys

-----------------------------------------------------------------------------
(* Date keys.                                                               *)

DateKeyed == {"actions", "history", "mutualfund_holders", "institutional_holders"}

\* The calendar day of the date a row is stored under.
StoredDay(t, r) ==
    IF t \in {"history", "mutualfund_holders"} THEN r.date[1] ELSE r.date

\* C23: whichever way the date of an item is represented, the call does not
\* fail for it, and the rows of a date-keyed table are one per symbol and
\* day (and holder): an item ingested under one representation after the
\* other has updated the row of its day.
C23_DateRepresentationIndependent ==
    /\ (/\ last.fn # "none" /\ last.fault = "none"
        /\ last.data.shape = "table" /\ last.data.items # <<>>) => LastOk
    /\ \A t \in DateKeyed : \A i, j \in DOMAIN db[t] :
          (/\ db[t][i].symbol = db[t][j].symbol
           /\ StoredDay(t, db[t][i]) = StoredDay(t, db[t][j])) => i = j

-----------------------------------------------------------------------------
(* Intraday bars.                                                           *)

\* The script has made the 1-minute call for ticker n.
IntradayCalled(n) == Invocations(n, "insert_stock_history_1m") = 1

\* C24: once an iteration of the daily script has made its 1-minute call for
\* a security whose provider returns minute bars, the script holds no error
\* of that call and history_1min holds a row of the security.
C24_IntradayBarsStored ==
    driver.schedule = "daily" =>
        \A n \in Finished :
            IntradayCalled(n) =>
                /\ \A e \in DOMAIN driver.errors :
                      driver.errors[e] # [ticker |-> n, fn |-> "insert_stock_history_1m"]
                /\ \E i \in DOMAIN db.history_1min :
                      db.history_1min[i].symbol = yf_symbol(driver.symbols[n])

-----------------------------------------------------------------------------
(* Calendar re-ingestion.                                                   *)

\* C25: a successful calendar call for a symbol whose calendar row is stored
\* returns 1, adds no row, stamps updated_at of the stored row and leaves in
\* it, for every column the snapshot has a number for, that number.
C25_CalendarReingestUpdates ==
    (/\ last.fn = "insert_stock_calendar" /\ LastOk
     /\ RowsOf(last.pre.calendars, last.symbol) # {}) =>
        /\ last.ret = 1
        /\ Len(db.calendars) = Len(last.pre.calendars)
        /\ \A i \in RowsOf(last.pre.calendars, last.symbol) :
              /\ db.calendars[i].updated_at = now
              /\ \A cs \in ColumnSources("calendars") :
                    Coercible(last.data.items[1], cs.names) =>
                        db.calendars[i][cs.col] \in CellsFor(last.data.items[1], cs.names)

-----------------------------------------------------------------------------
(* News articles.                                                           *)

\* The article ids of a news snapshot.
ArticleIds(c) == {c.data.items[k].id : k \in DOMAIN c.data.items} \ {""}

\* C26: the news table holds one row per article id, a stored article keeps
\* the symbol it was inserted under, and a news call that meets no fault
\* succeeds, whether or not an id occurs twice in its snapshot: every id of
\* the snapshot then has its row, stamped by the call.
C26_NewsKeyedByArticleId ==
    /\ \A i, j \in DOMAIN db.news : db.news[i].id = db.news[j].id => i = j
    /\ \A i \in DOMAIN last.pre.news :
          /\ db.news[i].id = last.pre.news[i].id
          /\ db.news[i].symbol = last.pre.news[i].symbol
    /\ (/\ last.fn = "insert_stock_news" /\ last.fault = "none"
        /\ last.data.shape = "list" /\ last.data.items # <<>>) =>
          /\ LastOk
          /\ \A id \in ArticleIds(last) :
                \E i \in DOMAIN db.news :
                    db.news[i].id = id /\ db.news[i].updated_at = now

-----------------------------------------------------------------------------
(* Estimates keyed by relative period code.                                 *)
EstimateDomains == {"earnings_estimates", "eps_trends"}

\* The rows of table t that the last call touched: those of its symbol
\* under a period code of its snapshot.
Touched(t) ==
    {i \in DOMAIN db[t] :
        /\ LastOk /\ t = LastTable
        /\ db[t][i].symbol = last.symbol
        /\ \E k \in DOMAIN last.keys : last.keys[k] = db[t][i].period_type}

-----------------------------------------------------------------------------
(* Recommendations.                                                         *)

\* C28: in every stored recommendations row total_analysts is the sum of
\* the row's five counts, a NULL (count or total) taken as 0; this also
\* after an update that brings the five counts to a sum of 0.
C28_TotalAnalystsIsSum ==
    \A i \in DOMAIN db.recommendations :
        LET r == db.recommendations[i]
        IN  or_0(r.total_analysts) =
                or_0(r.strong_buy) + or_0(r.buy) + or_0(r.hold)
                + or_0(r.sell) + or_0(r.strong_sell)

-----------------------------------------------------------------------------
(* Entries that lack part of their natural key.                             *)
HolderWrappers ==
    {"insert_stock_mutualfund_holders", "insert_stock_institutional_holders"}

SkippingWrappers ==
    HolderWrappers \cup {"insert_stock_news", "insert_stock_recommendations"}

\* The entry lacks part of the natural key of its table.
LacksKey(c, it) ==
    CASE c.fn \in HolderWrappers -> it.Holder = "" \/ no_date(it.date_reported)
      [] c.fn = "insert_stock_news" -> it.id = ""
      [] c.fn = "insert_stock_recommendations" -> it.period = ""

\* The entry has its whole key, the report date of a holder entry being a
\* temporal value.
HasKey(c, it) ==
    /\ ~LacksKey(c, it)
    /\ c.fn \in HolderWrappers => it.date_reported.kind = "ts"

\* The call was given a snapshot with an entry that lacks its key and an
\* entry that has it, every entry being of one of the two sorts, and met no
\* fault.
PartlyKeyed(c) ==
    /\ c.fn \in SkippingWrappers /\ c.fault = "none"
    /\ c.data.shape \in {"table", "list"}
    /\ \E n \in DOMAIN c.data.items : LacksKey(c, c.data.items[n])
    /\ \E n \in DOMAIN c.data.items : HasKey(c, c.data.items[n])
    /\ \A n \in DOMAIN c.data.items :
          LacksKey(c, c.data.items[n]) \/ HasKey(c, c.data.items[n])

\* C29: a call whose snapshot has an entry lacking part of its natural key
\* succeeds; it counts the entries that have their key and no other, each
\* of them has its row, inserted or updated by the call, and the table grows
\* by the inserted rows only.
C29_KeylessEntrySkippedAlone ==
    PartlyKeyed(last) =>
        LET t == LastTable
            keyed == {n \in DOMAIN last.data.items : HasKey(last, last.data.items[n])}
        IN  /\ LastOk
            /\ last.ret = Cardinality(keyed)
            /\ last.n_new + last.n_upd = last.ret
            /\ Len(db[t]) = Len(last.pre[t]) + last.n_new
            /\ \A ki \in CallItems(last) :
                  HasKey(last, ki.item) =>
                      \E i \in DOMAIN db[t] :
                          /\ KeyOwner(t, db[t][i].symbol) = KeyOwner(t, last.symbol)
                          /\ RowKey(t, db[t][i]) = ki.key
                          /\ db[t][i].updated_at = now

-----------------------------------------------------------------------------
(* The token exchange of the security directory.                            *)
Calls == driver.jq.calls

\* The listing request at position k follows, for the same client, the post
\* of the credentials and then the post of the refresh token that post
\* obtained, and carries the bearer header of the id token that came back.
AfterExchange(k) ==
    /\ k > 2
    /\ Calls[k - 2].client = Calls[k].client /\ Calls[k - 1].client = Calls[k].client
    /\ Calls[k - 2].url = "/token/auth_user"
    /\ Calls[k - 2].carried = <<"json", "credentials">>
    /\ Calls[k - 1].url = "/token/auth_refresh"
    /\ Calls[k - 1].carried = <<"params", Calls[k - 2].got>>
    /\ Calls[k].carried = Bearer(Calls[k - 1].got)

\* C30: every listing request comes after the two token steps of its
\* client, in order, carries the bearer header of the token the second step
\* gave, and that token is one the exchange really obtained: both steps
\* were answered with a token.
C30_ListingAfterTokenExchange ==
    \A k \in DOMAIN Calls :
        Calls[k].url = "/listed/info" =>
            /\ AfterExchange(k)
            /\ Calls[k - 2].got \in RefreshTokens
            /\ Calls[k - 1].got \in IdTokens

====
